---- MODULE Spec2Model ----
(***************************************************************************)
(* Runtime observation and invariant-inference engine (rdf.observe).       *)
(*                                                                         *)
(*   Spec       the @observe wrapper, the profile store and the call-graph *)
(*              tracker, run by several threads                            *)
(*   SpecTrack  the call-graph tracker alone, under calls of undecorated   *)
(*              functions on several threads                               *)
(*   SpecThreads the tracker's callback, clear and get_global_tracker at   *)
(*              the grain of their critical sections                       *)
(*   SpecInv    InferenceEngine._infer_invariants on observation lists     *)
(*   SpecRole   InferenceEngine._classify_role on caller/callee sets       *)
(*   SpecAnalyze _analyze_value applied to a value                          *)
(*   SpecRender GeneratedDocstring.render applied to a docstring            *)
(*   SpecSerial to_dict / from_dict of the observation models              *)
(*   SpecSession to_dict / from_dict of ObservationSession                 *)
(*   SpecPatch  writer.apply_docstrings on app.py, any small source file   *)
(*   SpecPlace  the patcher on files with multi-line headers and one-line   *)
(*              definitions                                                *)
(*   SpecBackup writer.apply_docstrings on app.py and lib.py, where app.py *)
(*              may not compile                                            *)
(***************************************************************************)
EXTENDS Integers, Sequences, FiniteSets, TLC

(***************************************************************************)
(* Bounds of the model.                                                    *)
(***************************************************************************)
\* wrapped calls started in a run (nesting is bounded by it as well)
MaxCalls == 2
\* calls of clear_observations, get_observations, start_tracking and
\* stop_tracking in a run of Spec
MaxControl == 1
\* calls of start_tracking, stop_tracking and clear_tracking in a run of
\* SpecTrack
MaxTrackOps == 2
\* names on a thread's tracker stack in a run of SpecThreads
MaxDepth == 2

(***************************************************************************)
(* Optional values: Python's None is the empty tuple, a present value x is *)
(* the one-element tuple <<x>>.                                            *)
(***************************************************************************)
None == <<>>
Some(x) == <<x>>

Last(s) == s[Len(s)]
Front(s) == SubSeq(s, 1, Len(s) - 1)
Max2(a, b) == IF a >= b THEN a ELSE b
Min2(a, b) == IF a <= b THEN a ELSE b
StartsWith(s, p) == Len(p) <= Len(s) /\ SubSeq(s, 1, Len(p)) = p

(***************************************************************************)
(* Python values, as far as _analyze_value looks at them: the type, a      *)
(* number n (the value of a bool/int/float, the length of a str, list or   *)
(* dict) and, for an int, whether its magnitude exceeds the largest        *)
(* double (float(value) raises OverflowError for such an int).             *)
(***************************************************************************)
PyValue(type, n, huge, items) == [type |-> type, n |-> n, huge |-> huge, items |-> items]
PyNone == PyValue("NoneType", 0, FALSE, <<>>)
PyBool(b) == PyValue("bool", IF b THEN 1 ELSE 0, FALSE, <<>>)
PyInt(k) == PyValue("int", k, FALSE, <<>>)
PyHuge == PyValue("int", 0, TRUE, <<>>)
\* a str is the sequence of its characters, a collection the sequence of
\* its elements, a dict the sequence of its keys in insertion order
PyText(chars) == PyValue("str", Len(chars), FALSE, chars)
PyStr(len) == PyText([k \in 1..len |-> "a"])
PyColl(type, len) == PyValue(type, len, FALSE, [k \in 1..len |-> k])
PyList(len) == PyColl("list", len)
PyDict(len) == PyColl("dict", len)

\* isinstance(value, types): bool is a subclass of int
isinstance(value, types) == value.type \in types \/ (value.type = "bool" /\ "int" \in types)

(***************************************************************************)
(* models.ValueAnalysis and decorator._analyze_value.                      *)
(***************************************************************************)
ValueAnalysis(type_name, is_none, numeric_value, string_length, string_patterns, collection_length, collection_is_empty, dict_keys) ==
    [type_name |-> type_name, is_none |-> is_none,
     numeric_value |-> numeric_value,
     string_length |-> string_length, string_patterns |-> string_patterns,
     collection_length |-> collection_length,
     collection_is_empty |-> collection_is_empty, dict_keys |-> dict_keys]

\* float(value) at decorator.py:180 raises OverflowError for an int beyond
\* the range of a double; no handler around _analyze_value catches it.
AnalyzeRaises(value) == value.type \in {"int", "float"} /\ value.huge

EndsWith(s, p) == Len(p) <= Len(s) /\ SubSeq(s, Len(s) - Len(p) + 1, Len(s)) = p

\* decorator.py:208: the extensions in the order they are tried
Extensions ==
    <<[ext |-> <<".", "c", "s", "v">>, tag |-> "ends_with_csv"],
      [ext |-> <<".", "j", "s", "o", "n">>, tag |-> "ends_with_json"],
      [ext |-> <<".", "y", "a", "m", "l">>, tag |-> "ends_with_yaml"],
      [ext |-> <<".", "y", "m", "l">>, tag |-> "ends_with_yml"],
      [ext |-> <<".", "p", "y">>, tag |-> "ends_with_py"],
      [ext |-> <<".", "t", "x", "t">>, tag |-> "ends_with_txt"],
      [ext |-> <<".", "m", "d">>, tag |-> "ends_with_md"]>>

\* decorator.py:204-218
_extract_patterns(s) ==
    LET hits == SelectSeq(Extensions, LAMBDA e : EndsWith(s, e.ext))
        has(c) == \E k \in 1..Len(s) : s[k] = c
    IN  [k \in 1..Len(hits) |-> hits[k].tag]
        \o (IF has("@") /\ has(".") THEN <<"looks_like_email">> ELSE <<>>)
        \o (IF StartsWith(s, <<"/">>) THEN <<"looks_like_path">>
            ELSE IF StartsWith(s, <<".", "/">>) THEN <<"looks_like_path">> ELSE <<>>)
        \o (IF StartsWith(s, <<"h", "t", "t", "p", ":", "/", "/">>) THEN <<"looks_like_url">>
            ELSE IF StartsWith(s, <<"h", "t", "t", "p", "s", ":", "/", "/">>) THEN <<"looks_like_url">> ELSE <<>>)

\* decorator.py:190: the keys of a dict that are kept
DictKeysLimit == 20

\* _analyze_value with the int/float test tried before the bool test
_analyze_value_numericFirst(value) ==
    LET n == Len(value.items)
    IN  IF isinstance(value, {"int", "float"})
        THEN ValueAnalysis(value.type, value.type = "NoneType", Some(value.n), None, <<>>, None, None, <<>>)
        ELSE IF isinstance(value, {"str"})
        THEN ValueAnalysis(value.type, value.type = "NoneType", None, Some(n), _extract_patterns(value.items), None, None, <<>>)
        ELSE IF isinstance(value, {"list", "tuple", "set", "frozenset"})
        THEN ValueAnalysis(value.type, value.type = "NoneType", None, None, <<>>, Some(n), Some(n = 0), <<>>)
        ELSE IF isinstance(value, {"dict"})
        THEN ValueAnalysis(value.type, value.type = "NoneType", None, None, <<>>, Some(n), Some(n = 0),
                           [k \in 1..Min2(n, DictKeysLimit) |-> ToString(value.items[k])])
        ELSE ValueAnalysis(value.type, value.type = "NoneType", None, None, <<>>, None, None, <<>>)

\* decorator.py:165-201; float(value) is exact on the small integers of
\* the model, and str(k) of a key is its decimal numeral.
_analyze_value(value) ==
    LET n == Len(value.items)
    IN  IF isinstance(value, {"bool"})
        THEN ValueAnalysis(value.type, value.type = "NoneType", None, None, <<>>, None, None, <<>>)
        ELSE IF isinstance(value, {"int", "float"})
        THEN ValueAnalysis(value.type, value.type = "NoneType", Some(value.n), None, <<>>, None, None, <<>>)
        ELSE IF isinstance(value, {"str"})
        THEN ValueAnalysis(value.type, value.type = "NoneType", None, Some(n), _extract_patterns(value.items), None, None, <<>>)
        ELSE IF isinstance(value, {"list", "tuple", "set", "frozenset"})
        THEN ValueAnalysis(value.type, value.type = "NoneType", None, None, <<>>, Some(n), Some(n = 0), <<>>)
        ELSE IF isinstance(value, {"dict"})
        THEN ValueAnalysis(value.type, value.type = "NoneType", None, None, <<>>, Some(n), Some(n = 0),
                           [k \in 1..Min2(n, DictKeysLimit) |-> ToString(value.items[k])])
        ELSE ValueAnalysis(value.type, value.type = "NoneType", None, None, <<>>, None, None, <<>>)

\* ValueAnalysis(type_name="<exception>", is_none=True), decorator.py:141
ExceptionMarker == ValueAnalysis("<exception>", TRUE, None, None, <<>>, None, None, <<>>)

\* Error kinds the handler `except Exception` catches: every kind but the
\* direct subclasses of BaseException.
IsException(kind) == kind \notin {"KeyboardInterrupt", "SystemExit", "GeneratorExit"}

\* The outcome of a call: a returned value or a raised error kind.
Return(v) == [kind |-> "return", val |-> v, exc |-> ""]
Raise(e) == [kind |-> "raise", val |-> PyNone, exc |-> e]
(***************************************************************************)
(* Qualified names.  A module name is the sequence of its dotted parts, so *)
(* that the tracker's module.startswith(prefix) is a prefix test.          *)
(***************************************************************************)
QN(module, name) == [module |-> module, name |-> name]

ModApp == <<"app">>
ModDecorator == <<"rdf", "observe", "decorator">>
ModCallGraph == <<"rdf", "observe", "call_graph">>

Threads == {"t1", "t2"}
\* the thread that calls the control functions
Main == "t1"
Funcs == {"f"}
Qual(fn) == QN(ModApp, fn)
WrapperName == QN(ModDecorator, "wrapper")
ClearName == QN(ModDecorator, "clear_observations")
TrackerFns == {"get_global_tracker", "get_caller", "get_depth", "_get_stack", "start_tracking", "start", "stop_tracking", "stop", "clear_tracking", "clear"}
\* undecorated functions of the program: one inside module app, one outside
Plain == {QN(ModApp, "g"), QN(<<"lib">>, "h")}
Names == {Qual(fn) : fn \in Funcs} \cup {WrapperName, ClearName, QN(ModDecorator, "get_observations")} \cup {QN(ModCallGraph, n) : n \in TrackerFns} \cup Plain

\* The module filters start_tracking is called with: none, or {"app"}.
Filters == {{}, {ModApp}}

VARIABLES
    \* decorator._profiles: qualified name -> index into heap, 0 when absent
    _profiles,
    \* every FunctionProfile object created so far (an object stays alive
    \* while a running wrapper holds it, also after clear_observations)
    heap,
    \* history: for each profile object, what the wrapped function really
    \* did in each call whose observation was appended (parallel to
    \* observations)
    actual,
    \* per thread, the wrapper invocations in progress, innermost last
    frames,
    \* the thread, the function's outcome and the wrapper's outcome of the
    \* wrapper call that finished last
    last,
    \* CallGraphTracker: _local.stack per thread, tracked_modules, callers,
    \* callees; hook[t] is whether sys.setprofile holds the callback on t
    stack, hook, tracked_modules, callers, callees,
    \* logical clock behind datetime.now(timezone.utc)
    now,
    \* the dict get_observations returned last (None before the call), with
    \* the history of what its profiles held at that moment
    snapshot,
    \* history: per thread and wrapper invocation in progress, whether it
    \* began after the store was last cleared; of those that began after it,
    \* the ones that have finished, in the order they finished
    entered, completed,
    \* per thread, the undecorated functions being executed, innermost last
    running,
    \* history: the modules argument of the last start_tracking call (None
    \* before the first)
    started_with,
    \* budgets of the model: the calls made, the control calls left
    ncalls, ncontrol

wvars == <<_profiles, heap, actual, frames, last, stack, hook, tracked_modules, callers, callees, now, snapshot, entered, completed, running, started_with, ncalls, ncontrol>>

VARIABLES
    \* the FunctionProfile given to the InferenceEngine
    iprofile,
    \* the list _infer_invariants returned for iprofile, None before the call
    invariants,
    \* the role _classify_role returned for iprofile, None before the call
    role

ivars == <<iprofile, invariants, role>>

VARIABLES
    \* the object under serialisation, [cls, val]
    sobj,
    \* the dict to_dict returned for it, None before the call
    wire,
    \* the object from_dict built from wire, None before the call
    restored

svars == <<sobj, wire, restored>>

VARIABLES
    \* the file system: the text of each source file (None: no such file)
    \* and the backup copies, a set of [path, text]
    source, backups,
    \* the second datetime.now() is in
    clock,
    \* apply_docstrings: the entries grouped by file, in insertion order;
    \* where the run is ("group", "backup", "write", "done"); the index of
    \* the file _apply_to_file handles next
    by_file, stage, next_file,
    \* history of the current run: per file, the text it held when
    \* _apply_to_file was entered and the entries whose docstring was
    \* written; the outcome of each _apply_to_file call, in order
    original, applied, log,
    \* the number of entries passed to apply_docstrings so far
    ndocs

pvars == <<source, backups, clock, by_file, stage, next_file, original, applied, log, ndocs>>

VARIABLES
    \* CallGraphTracker._lock: the thread holding it, or None
    tracker_lock,
    \* per thread, the call event whose edge _profile_callback has still to
    \* record: None, or the name called and the caller read from the stack
    pending,
    \* call_graph._global_tracker: 0 is None, k is the k-th CallGraphTracker
    \* constructed; the number constructed so far
    _global_tracker, created,
    \* per thread, where its call of get_global_tracker is ("idle", "create",
    \* "return", "done") and the instance it returned (0 before)
    getting, got

tvars == <<tracker_lock, pending, _global_tracker, created, getting, got>>

vars == <<wvars, ivars, svars, pvars, tvars>>

(***************************************************************************)
(* CallGraphTracker._profile_callback as a function of the tracker's state *)
(* tr = [stack, callers, callees] of the thread the event is delivered on. *)
(***************************************************************************)
Tracked(module, filter) == filter = {} \/ \E m \in filter : StartsWith(module, m)

_profile_callback(tr, filter, event, qualname) ==
    IF ~Tracked(qualname.module, filter) THEN tr
    ELSE IF event = "call"
    THEN IF tr.stack # <<>>
         THEN LET caller == Last(tr.stack)
              IN  [stack |-> Append(tr.stack, qualname),
                   callers |-> [tr.callers EXCEPT ![qualname] = @ \cup {caller}],
                   callees |-> [tr.callees EXCEPT ![caller] = @ \cup {qualname}]]
         ELSE [tr EXCEPT !.stack = Append(tr.stack, qualname)]
    ELSE IF tr.stack # <<>> /\ Last(tr.stack) = qualname
         THEN [tr EXCEPT !.stack = Front(tr.stack)]
         ELSE tr

\* The events of a piece of straight-line code, delivered in order while
\* the interpreter holds the callback on the thread (on), not at all
\* otherwise.
RECURSIVE Deliver(_, _, _, _)
Deliver(tr, on, filter, events) ==
    IF ~on \/ events = <<>> THEN tr
    ELSE Deliver(_profile_callback(tr, filter, events[1][1], events[1][2]), on, filter, Tail(events))

CallRet(name) == <<<<"call", QN(ModCallGraph, name)>>, <<"return", QN(ModCallGraph, name)>>>>

\* CallGraphTracker.get_caller / get_depth on a stack
get_caller(stk) == IF Len(stk) >= 2 THEN Some(stk[Len(stk) - 1]) ELSE None
get_depth(stk) == Len(stk)

TrackerOf(t) == [stack |-> stack[t], callers |-> callers, callees |-> callees]

SetTracker(t, tr) ==
    /\ stack' = [stack EXCEPT ![t] = tr.stack]
    /\ callers' = tr.callers
    /\ callees' = tr.callees

(***************************************************************************)
(* models.FunctionProfile and models.CallObservation.                      *)
(***************************************************************************)
MinDepthSentinel == 999

FunctionProfile(fn) ==
    [qualname |-> Qual(fn), module_name |-> ModApp, file_path |-> "app.py", line_number |-> 1,
     callers |-> {}, callees |-> {}, call_count |-> 0,
     max_call_depth |-> 0, min_call_depth |-> MinDepthSentinel,
     io_patterns |-> {}, observations |-> <<>>]

CallObservation(fn, timestamp, arguments, return_value, raised_exception, caller, call_depth) ==
    [function_name |-> fn, module_name |-> ModApp, qualname |-> Qual(fn),
     file_path |-> "app.py", line_number |-> 1, timestamp |-> timestamp,
     arguments |-> arguments, return_value |-> return_value,
     raised_exception |-> raised_exception, caller |-> caller, call_depth |-> call_depth]

\* datetime.now(timezone.utc) at logical time k
UtcTime(k) == [sec |-> k, us |-> 0, tz |-> "UTC"]

(***************************************************************************)
(* The wrapped functions take one parameter, x.                            *)
(***************************************************************************)
Params == <<"x">>
ArgName(i) == CASE i = 0 -> "arg0" [] i = 1 -> "arg1" [] OTHER -> "arg2"

ArgValues == {PyInt(1), PyHuge}
ArgTuples == {<<>>} \cup {<<v>> : v \in ArgValues}
FuncOutcomes == {Return(PyInt(1)), Return(PyHuge), Raise("ValueError"), Raise("KeyboardInterrupt")}

\* What the wrapped function may do on args: a call that does not match
\* the signature raises TypeError; on the huge argument it returns 1.
Behaviours(args) ==
    IF Len(args) # Len(Params) THEN {Raise("TypeError")}
    ELSE IF args[1].huge THEN {Return(PyInt(1))}
    ELSE FuncOutcomes

\* decorator.py:119-127: sig.bind, or arg0, arg1, ... when binding fails
BoundNames(args) ==
    IF Len(args) = Len(Params) THEN Params ELSE [i \in 1..Len(args) |-> ArgName(i - 1)]

BindRaises(args) == \E i \in 1..Len(args) : AnalyzeRaises(args[i])
AnalyzedArgs(args) == [i \in 1..Len(args) |-> <<BoundNames(args)[i], _analyze_value(args[i])>>]
(***************************************************************************)
(* observe.wrapper, decorator.py:92-160, in three steps per invocation.    *)
(* Each step holds one section under decorator._lock together with the     *)
(* thread-private code and the tracker events around it.                   *)
(***************************************************************************)
Frame(fn, args, fout, profile) ==
    [fn |-> fn, pc |-> "entered", args |-> args, fout |-> fout, profile |-> profile,
     caller |-> None, depth |-> 0, analyzed_args |-> <<>>]

\* A thread can start a call from its top level or from the body of a
\* wrapped function it is running; the main thread calls the control
\* functions (clear_observations, start_tracking, stop_tracking) from its
\* top level.
AtCallSite(t) == IF frames[t] = <<>> THEN TRUE ELSE Last(frames[t]).pc = "body"

\* UpdateProfile with the minimum overwritten by the depth just read
UpdateProfile_assignMin(profile, caller, depth) ==
    [profile EXCEPT !.callers = IF caller # None THEN @ \cup {caller[1]} ELSE @,
                    !.call_count = @ + 1,
                    !.max_call_depth = Max2(@, depth),
                    !.min_call_depth = depth]

\* UpdateProfile also filing the caller read from the tracker under callees
UpdateProfile_fillCallees(profile, caller, depth) ==
    [profile EXCEPT !.callers = IF caller # None THEN @ \cup {caller[1]} ELSE @,
                    !.callees = IF caller # None THEN @ \cup {caller[1]} ELSE @,
                    !.call_count = @ + 1,
                    !.max_call_depth = Max2(@, depth),
                    !.min_call_depth = Min2(@, depth)]

\* decorator.py:111-116
UpdateProfile(profile, caller, depth) ==
    [profile EXCEPT !.callers = IF caller # None THEN @ \cup {caller[1]} ELSE @,
                    !.call_count = @ + 1,
                    !.max_call_depth = Max2(@, depth),
                    !.min_call_depth = Min2(@, depth)]

\* decorator.py:130-137: the name recorded for what the function did
ExceptionName(fout) ==
    IF fout.kind = "raise" /\ IsException(fout.exc) THEN Some(fout.exc) ELSE None

\* decorator.py:131-134: result stays None unless the function returned
ResultOf(fout) == IF fout.kind = "return" THEN fout.val ELSE PyNone

\* decorator.py:138-143: the finally block analyses the result
FinallyRaises(fout) == ExceptionName(fout) = None /\ AnalyzeRaises(ResultOf(fout))

\* What the wrapper hands to its caller once the function has run: the
\* function's own return or error, unless the finally block raised.
WrapperOutcome(fout) == IF FinallyRaises(fout) THEN Raise("OverflowError") ELSE fout

\* decorator.py:140-157
Observation(fr, timestamp) ==
    CallObservation(fr.fn, timestamp, fr.analyzed_args,
                    IF ExceptionName(fr.fout) # None THEN ExceptionMarker
                    ELSE _analyze_value(ResultOf(fr.fout)),
                    IF ExceptionName(fr.fout) # None THEN Some(ExceptionName(fr.fout)[1]) ELSE None,
                    fr.caller, fr.depth)

\* decorator.py:92-102: the interpreter enters wrapper; the profile is
\* looked up, and created when the store does not hold it.
WrapperEnter(t, fn, args, fout) ==
    /\ ncalls < MaxCalls
    /\ AtCallSite(t)
    /\ ncalls' = ncalls + 1
    /\ SetTracker(t, Deliver(TrackerOf(t), hook[t], tracked_modules, <<<<"call", WrapperName>>>>))
    /\ IF _profiles[fn] = 0
       THEN /\ heap' = Append(heap, FunctionProfile(fn))
            /\ actual' = Append(actual, <<>>)
            /\ _profiles' = [_profiles EXCEPT ![fn] = Len(heap) + 1]
       ELSE UNCHANGED <<heap, actual, _profiles>>
    /\ frames' = [frames EXCEPT ![t] = Append(@, Frame(fn, args, fout, _profiles'[fn]))]
    /\ entered' = [entered EXCEPT ![t] = Append(@, TRUE)]
    /\ UNCHANGED <<last, hook, tracked_modules, now, snapshot, completed, running, started_with, ncontrol>>
    /\ UNCHANGED <<ivars, svars, pvars, tvars>>

\* decorator.py:104-133: caller and depth are read from the tracker, the
\* profile is updated, the arguments are bound and analysed, and the
\* wrapped function is entered.  An error of the analysis leaves the
\* wrapper at once.
WrapperUpdate(t) ==
    /\ frames[t] # <<>>
    /\ Last(frames[t]).pc = "entered"
    /\ LET fr == Last(frames[t])
           on == hook[t]
           tr1 == Deliver(TrackerOf(t), on, tracked_modules,
                          CallRet("get_global_tracker") \o <<<<"call", QN(ModCallGraph, "get_caller")>>>>
                          \o CallRet("_get_stack"))
           caller == get_caller(tr1.stack)
           tr2 == Deliver(tr1, on, tracked_modules,
                          <<<<"return", QN(ModCallGraph, "get_caller")>>, <<"call", QN(ModCallGraph, "get_depth")>>>>
                          \o CallRet("_get_stack"))
           depth == get_depth(tr2.stack)
           tr3 == Deliver(tr2, on, tracked_modules, <<<<"return", QN(ModCallGraph, "get_depth")>>>>)
       IN  /\ heap' = [heap EXCEPT ![fr.profile] = UpdateProfile(@, caller, depth)]
           /\ IF BindRaises(fr.args)
              THEN /\ SetTracker(t, Deliver(tr3, on, tracked_modules, <<<<"return", WrapperName>>>>))
                   /\ frames' = [frames EXCEPT ![t] = Front(@)]
                   /\ last' = Some([thread |-> t, f |-> fr.fout, w |-> Raise("OverflowError")])
                   /\ entered' = [entered EXCEPT ![t] = Front(@)]
                   /\ completed' = IF Last(entered[t]) THEN Append(completed, [fn |-> fr.fn, time |-> now, depth |-> depth]) ELSE completed
              ELSE /\ SetTracker(t, Deliver(tr3, on, tracked_modules, <<<<"call", Qual(fr.fn)>>>>))
                   /\ frames' = [frames EXCEPT ![t] = Append(Front(@),
                          [fr EXCEPT !.pc = "body", !.caller = caller, !.depth = depth,
                                     !.analyzed_args = AnalyzedArgs(fr.args)])]
                   /\ UNCHANGED <<last, entered, completed>>
    /\ UNCHANGED <<_profiles, actual, hook, tracked_modules, now, snapshot, running, started_with, ncalls, ncontrol>>
    /\ UNCHANGED <<ivars, svars, pvars, tvars>>

\* decorator.py:133-160: the wrapped function returns or raises; the
\* finally block builds the observation and appends it under the lock;
\* the wrapper returns or raises.
WrapperRecord(t) ==
    /\ frames[t] # <<>>
    /\ Last(frames[t]).pc = "body"
    /\ LET fr == Last(frames[t])
           on == hook[t]
           tr1 == Deliver(TrackerOf(t), on, tracked_modules, <<<<"return", Qual(fr.fn)>>>>)
       IN  /\ IF FinallyRaises(fr.fout)
              THEN UNCHANGED <<heap, actual>>
              ELSE /\ heap' = [heap EXCEPT ![fr.profile].observations = Append(@, Observation(fr, UtcTime(now)))]
                   /\ actual' = [actual EXCEPT ![fr.profile] = Append(@, fr.fout)]
           /\ SetTracker(t, Deliver(tr1, on, tracked_modules, <<<<"return", WrapperName>>>>))
           /\ last' = Some([thread |-> t, f |-> fr.fout, w |-> WrapperOutcome(fr.fout)])
    /\ frames' = [frames EXCEPT ![t] = Front(@)]
    /\ now' = now + 1
    /\ entered' = [entered EXCEPT ![t] = Front(@)]
    /\ completed' = IF Last(entered[t]) THEN Append(completed, [fn |-> Last(frames[t]).fn, time |-> now, depth |-> Last(frames[t]).depth]) ELSE completed
    /\ UNCHANGED <<_profiles, snapshot, hook, tracked_modules, running, started_with, ncalls, ncontrol>>
    /\ UNCHANGED <<ivars, svars, pvars, tvars>>

\* decorator.clear_observations, decorator.py:227-230
ClearObservations(t) ==
    /\ ncontrol > 0
    /\ t = Main
    /\ frames[t] = <<>>
    /\ ncontrol' = ncontrol - 1
    /\ _profiles' = [fn \in Funcs |-> 0]
    /\ SetTracker(t, Deliver(TrackerOf(t), hook[t], tracked_modules,
                             <<<<"call", ClearName>>, <<"return", ClearName>>>>))
    /\ entered' = [u \in Threads |-> [k \in 1..Len(entered[u]) |-> FALSE]]
    /\ completed' = <<>>
    /\ UNCHANGED <<heap, actual, frames, last, hook, tracked_modules, now, snapshot, running, started_with, ncalls>>
    /\ UNCHANGED <<ivars, svars, pvars, tvars>>

\* what the profile at a place of the heap holds; 0 is no profile
Deref(i) == IF i = 0 THEN None ELSE Some(heap[i])

\* decorator.get_observations, decorator.py:221-224: dict(_profiles) is a
\* new dict whose values are the profile objects of the store
GetObservations(t) ==
    /\ ncontrol > 0
    /\ t = Main
    /\ frames[t] = <<>>
    /\ ncontrol' = ncontrol - 1
    /\ snapshot' = Some([dict |-> _profiles, held |-> [fn \in Funcs |-> Deref(_profiles[fn])]])
    /\ SetTracker(t, Deliver(TrackerOf(t), hook[t], tracked_modules,
                             <<<<"call", QN(ModDecorator, "get_observations")>>, <<"return", QN(ModDecorator, "get_observations")>>>>))
    /\ UNCHANGED <<_profiles, heap, actual, frames, last, hook, tracked_modules, now, entered, completed, running, started_with, ncalls>>
    /\ UNCHANGED <<ivars, svars, pvars, tvars>>

\* call_graph.start_tracking, call_graph.py:144-149 with
\* CallGraphTracker.start: sys.setprofile installs the callback on the
\* calling thread only.  The events before the installation are delivered
\* if the callback was installed already, those after it always.
StartTracking(t, modules) ==
    /\ ncontrol > 0
    /\ t = Main
    /\ frames[t] = <<>>
    /\ ncontrol' = ncontrol - 1
    /\ LET tr1 == Deliver(TrackerOf(t), hook[t], tracked_modules,
                          <<<<"call", QN(ModCallGraph, "start_tracking")>>>> \o CallRet("get_global_tracker"))
           filter == IF modules # {} THEN modules ELSE tracked_modules
           tr2 == Deliver(tr1, hook[t], filter, <<<<"call", QN(ModCallGraph, "start")>>>>)
           tr3 == Deliver(tr2, TRUE, filter,
                          <<<<"return", QN(ModCallGraph, "start")>>, <<"return", QN(ModCallGraph, "start_tracking")>>>>)
       IN  /\ tracked_modules' = filter
           /\ hook' = [hook EXCEPT ![t] = TRUE]
           /\ SetTracker(t, tr3)
    /\ started_with' = Some(modules)
    /\ UNCHANGED <<_profiles, heap, actual, frames, last, now, snapshot, entered, completed, running, ncalls>>
    /\ UNCHANGED <<ivars, svars, pvars, tvars>>

\* call_graph.stop_tracking, call_graph.py:152-155 with
\* CallGraphTracker.stop: after sys.setprofile(None) no event is delivered.
StopTracking(t) ==
    /\ ncontrol > 0
    /\ t = Main
    /\ frames[t] = <<>>
    /\ ncontrol' = ncontrol - 1
    /\ SetTracker(t, Deliver(TrackerOf(t), hook[t], tracked_modules,
                             <<<<"call", QN(ModCallGraph, "stop_tracking")>>>> \o CallRet("get_global_tracker")
                             \o <<<<"call", QN(ModCallGraph, "stop")>>>>))
    /\ hook' = [hook EXCEPT ![t] = FALSE]
    /\ UNCHANGED <<_profiles, heap, actual, frames, last, tracked_modules, now, snapshot, entered, completed, running, started_with, ncalls>>
    /\ UNCHANGED <<ivars, svars, pvars, tvars>>

\* call_graph.clear_tracking, call_graph.py:158-161 with
\* CallGraphTracker.clear, call_graph.py:123-129: the maps and the stack of
\* the calling thread are emptied; the two returns that follow find the
\* stack empty
ClearTracking(t) ==
    /\ ncontrol > 0
    /\ tracker_lock = None
    /\ t = Main
    /\ frames[t] = <<>>
    /\ ncontrol' = ncontrol - 1
    /\ SetTracker(t, Deliver([stack |-> <<>>, callers |-> [n \in Names |-> {}], callees |-> [n \in Names |-> {}]],
                             hook[t], tracked_modules,
                             <<<<"return", QN(ModCallGraph, "clear")>>, <<"return", QN(ModCallGraph, "clear_tracking")>>>>))
    /\ UNCHANGED <<_profiles, heap, actual, frames, last, hook, tracked_modules, now, snapshot, entered, completed, running, started_with, ncalls>>
    /\ UNCHANGED <<ivars, svars, pvars, tvars>>

\* the interpreter enters an undecorated function on thread t and reports
\* the call to the callback sys.setprofile holds on that thread
Call(t, name) ==
    /\ ncalls < MaxCalls
    /\ ncalls' = ncalls + 1
    /\ running' = [running EXCEPT ![t] = Append(@, name)]
    /\ SetTracker(t, Deliver(TrackerOf(t), hook[t], tracked_modules, <<<<"call", name>>>>))
    /\ UNCHANGED <<_profiles, heap, actual, frames, last, hook, tracked_modules, now, snapshot, entered, completed, started_with, ncontrol>>
    /\ UNCHANGED <<ivars, svars, pvars, tvars>>

\* the innermost undecorated function on thread t returns or raises; either
\* way the interpreter reports a return
ReturnFrom(t) ==
    /\ running[t] # <<>>
    /\ running' = [running EXCEPT ![t] = Front(@)]
    /\ SetTracker(t, Deliver(TrackerOf(t), hook[t], tracked_modules, <<<<"return", Last(running[t])>>>>))
    /\ UNCHANGED <<_profiles, heap, actual, frames, last, hook, tracked_modules, now, snapshot, entered, completed, started_with, ncalls, ncontrol>>
    /\ UNCHANGED <<ivars, svars, pvars, tvars>>

\* _profile_callback, call_graph.py:62-80 and 91, on a thread whose events
\* reach it: a call with an empty stack is pushed at once; with a
\* non-empty stack the caller is read and the edge is still to record
CallEvent(t, name) ==
    /\ pending[t] = None
    /\ Len(stack[t]) < MaxDepth
    /\ IF stack[t] = <<>>
       THEN /\ stack' = [stack EXCEPT ![t] = Append(@, name)]
            /\ UNCHANGED pending
       ELSE /\ pending' = [pending EXCEPT ![t] = Some([name |-> name, caller |-> Last(stack[t])])]
            /\ UNCHANGED stack
    /\ UNCHANGED <<tracker_lock, _global_tracker, created, getting, got>>
    /\ UNCHANGED <<_profiles, heap, actual, frames, last, hook, tracked_modules, callers, callees, now, snapshot, entered, completed, running, started_with, ncalls, ncontrol>>
    /\ UNCHANGED <<ivars, svars, pvars>>

\* LockAddCaller giving the lock back as soon as callers is updated
LockAddCaller_release(t) ==
    /\ pending[t] # None
    /\ tracker_lock = None
    /\ callers' = [callers EXCEPT ![pending[t][1].name] = @ \cup {pending[t][1].caller}]
    /\ tracker_lock' = None
    /\ UNCHANGED <<pending, _global_tracker, created, getting, got>>
    /\ UNCHANGED <<_profiles, heap, actual, frames, last, stack, hook, tracked_modules, callees, now, snapshot, entered, completed, running, started_with, ncalls, ncontrol>>
    /\ UNCHANGED <<ivars, svars, pvars>>

\* _profile_callback, call_graph.py:82-85: the lock is taken and the caller
\* is added to callers[qualname]
LockAddCaller(t) ==
    /\ pending[t] # None
    /\ tracker_lock = None
    /\ tracker_lock' = Some(t)
    /\ callers' = [callers EXCEPT ![pending[t][1].name] = @ \cup {pending[t][1].caller}]
    /\ UNCHANGED <<pending, _global_tracker, created, getting, got>>
    /\ UNCHANGED <<_profiles, heap, actual, frames, last, stack, hook, tracked_modules, callees, now, snapshot, entered, completed, running, started_with, ncalls, ncontrol>>
    /\ UNCHANGED <<ivars, svars, pvars>>

\* _profile_callback, call_graph.py:87-91: the name is added to
\* callees[caller], the lock is given back and the name is pushed
AddCalleeUnlock(t) ==
    /\ pending[t] # None
    /\ tracker_lock = Some(t)
    /\ callees' = [callees EXCEPT ![pending[t][1].caller] = @ \cup {pending[t][1].name}]
    /\ tracker_lock' = None
    /\ stack' = [stack EXCEPT ![t] = Append(@, pending[t][1].name)]
    /\ pending' = [pending EXCEPT ![t] = None]
    /\ UNCHANGED <<_global_tracker, created, getting, got>>
    /\ UNCHANGED <<_profiles, heap, actual, frames, last, hook, tracked_modules, callers, now, snapshot, entered, completed, running, started_with, ncalls, ncontrol>>
    /\ UNCHANGED <<ivars, svars, pvars>>

\* get_global_tracker, call_graph.py:136-138: the test of the global
GetCheck(t) ==
    /\ getting[t] = "idle"
    /\ getting' = [getting EXCEPT ![t] = IF _global_tracker = 0 THEN "create" ELSE "return"]
    /\ UNCHANGED <<tracker_lock, pending, _global_tracker, created, got>>
    /\ UNCHANGED <<wvars, ivars, svars, pvars>>

\* get_global_tracker, call_graph.py:139-140: a tracker is constructed and
\* assigned to the global
GetCreate(t) ==
    /\ getting[t] = "create"
    /\ created' = created + 1
    /\ _global_tracker' = created + 1
    /\ getting' = [getting EXCEPT ![t] = "return"]
    /\ UNCHANGED <<tracker_lock, pending, got>>
    /\ UNCHANGED <<wvars, ivars, svars, pvars>>

\* get_global_tracker, call_graph.py:141: the global is read and returned
GetReturn(t) ==
    /\ getting[t] = "return"
    /\ got' = [got EXCEPT ![t] = _global_tracker]
    /\ getting' = [getting EXCEPT ![t] = "done"]
    /\ UNCHANGED <<tracker_lock, pending, _global_tracker, created>>
    /\ UNCHANGED <<wvars, ivars, svars, pvars>>

ThreadNext ==
    \E t \in Threads :
        \/ \E name \in Plain : CallEvent(t, name)
        \/ LockAddCaller(t)
        \/ AddCalleeUnlock(t)
        \/ ClearTracking(t)
        \/ GetCheck(t)
        \/ GetCreate(t)
        \/ GetReturn(t)

TrackNext ==
    \E t \in Threads :
        \/ \E name \in Plain : Call(t, name)
        \/ ReturnFrom(t)
        \/ \E modules \in Filters : StartTracking(t, modules)
        \/ StopTracking(t)
        \/ ClearTracking(t)


WNext ==
    \E t \in Threads :
        \/ \E fn \in Funcs, args \in ArgTuples : \E fout \in Behaviours(args) : WrapperEnter(t, fn, args, fout)
        \/ WrapperUpdate(t)
        \/ WrapperRecord(t)
        \/ ClearObservations(t)
        \/ GetObservations(t)
        \/ \E modules \in Filters : StartTracking(t, modules)
        \/ StopTracking(t)

(***************************************************************************)
(* Claims about the wrapper (under Spec).                                  *)
(***************************************************************************)
Quiescent == \A t \in Threads : frames[t] = <<>>

\* C1: the wrapper hands its caller exactly what the wrapped function did:
\* the same returned value, or an error of the same kind, and never an
\* error the function did not raise.
C1_Transparency == last # None => last[1].w = last[1].f

\* C2: once no wrapped call is in progress, the profile stored for a
\* function has call_count = len(observations).
C2_CountConsistency ==
    Quiescent => \A fn \in Funcs : _profiles[fn] # 0 =>
        heap[_profiles[fn]].call_count = Len(heap[_profiles[fn]].observations)

\* C3: a profile with at least one observation has max_call_depth >=
\* min_call_depth; a profile starts with the sentinel 999 as its minimum;
\* no step raises a profile's min_call_depth or lowers its max_call_depth.
C3_DepthMonotone ==
    /\ [](\A i \in 1..Len(heap) :
            /\ Len(heap[i].observations) >= 1 => heap[i].max_call_depth >= heap[i].min_call_depth
            /\ heap[i].call_count = 0 => heap[i].min_call_depth = MinDepthSentinel)
    /\ [][/\ \A i \in 1..Len(heap) :
                /\ heap'[i].min_call_depth <= heap[i].min_call_depth
                /\ heap'[i].max_call_depth >= heap[i].max_call_depth
          /\ \A i \in (Len(heap) + 1)..Len(heap') :
                heap'[i].min_call_depth = MinDepthSentinel]_wvars

\* C3 witness: a profile with two observations made at different depths, so
\* that both extremes have moved.
C3_Witness ==
    \E i \in 1..Len(heap) :
        /\ Len(heap[i].observations) >= 2
        /\ heap[i].min_call_depth < heap[i].max_call_depth
        /\ heap[i].min_call_depth > 0

\* C4: every error the wrapped function raises is recorded by its kind
\* name with the error marker as return analysis and is re-raised
\* unchanged; an observation without an error name is of a call that
\* returned normally.
C4_ErrorsRecorded ==
    /\ \A i \in 1..Len(heap) : \A k \in 1..Len(heap[i].observations) :
          LET o == heap[i].observations[k]
              a == actual[i][k]
          IN  /\ a.kind = "raise" =>
                    o.raised_exception = Some(a.exc) /\ o.return_value = ExceptionMarker
              /\ o.raised_exception = None => a.kind = "return"
    /\ (last # None /\ last[1].f.kind = "raise") => last[1].w = last[1].f

\* C13: the dict get_observations returned is independent of the store:
\* its keys and every field of its profiles stay what they were when it
\* was returned, whatever wrapped calls and clear_observations do later.
C13_SnapshotIndependent ==
    snapshot # None => \A fn \in Funcs : Deref(snapshot[1].dict[fn]) = snapshot[1].held[fn]

\* the observations the store holds for fn
Stored(fn) == IF _profiles[fn] = 0 THEN <<>> ELSE heap[_profiles[fn]].observations

\* C14: whenever no wrapped call is in progress, the stored profile holds
\* exactly one observation for each call made since the store was last
\* cleared, in the order the calls finished.
C14_OneObservationPerCall ==
    Quiescent =>
        \A fn \in Funcs :
            LET done == SelectSeq(completed, LAMBDA c : c.fn = fn)
            IN  [k \in 1..Len(Stored(fn)) |-> Stored(fn)[k].timestamp] = [k \in 1..Len(done) |-> UtcTime(done[k].time)]

\* C23: once every call has finished, the stored profile of a function
\* called since the store was last cleared counts each of those calls,
\* holds one observation for each, and its maximum and minimum depth are
\* the largest and the smallest depth read for them.
C23_NoLostUpdates ==
    Quiescent =>
        \A fn \in Funcs :
            LET done == SelectSeq(completed, LAMBDA c : c.fn = fn)
                depths == {done[k].depth : k \in 1..Len(done)}
            IN  (done # <<>> /\ _profiles[fn] # 0) =>
                    /\ heap[_profiles[fn]].call_count = Len(done)
                    /\ Len(Stored(fn)) = Len(done)
                    /\ heap[_profiles[fn]].max_call_depth \in depths
                    /\ heap[_profiles[fn]].min_call_depth \in depths
                    /\ \A d \in depths : heap[_profiles[fn]].min_call_depth <= d /\ d <= heap[_profiles[fn]].max_call_depth

\* C24: the store holds a profile for a function only if a call of it has
\* begun since the store was last cleared (or since the start).
C24_AbsentUntilCalled ==
    \A fn \in Funcs :
        _profiles[fn] # 0 =>
            \/ \E k \in 1..Len(completed) : completed[k].fn = fn
            \/ \E t \in Threads : \E k \in 1..Len(frames[t]) : frames[t][k].fn = fn /\ entered[t][k]

\* C28: for every profile, the call count exceeds the number of its
\* observations by exactly the number of invocations between the count's
\* increment and the observation's append, and is never below it.
C28_InFlight ==
    \A i \in 1..Len(heap) :
        heap[i].call_count - Len(heap[i].observations) =
            Cardinality({<<t, k>> \in Threads \X (1..MaxCalls) :
                            k <= Len(frames[t]) /\ frames[t][k].profile = i /\ frames[t][k].pc = "body"})

C21_DirectCaller ==
    \A t \in Threads : \A k \in 1..Len(frames[t]) :
        (hook[t] /\ frames[t][k].pc = "body") =>
            frames[t][k].caller = IF k = 1 THEN None ELSE Some(Qual(frames[t][k - 1].fn))

(***************************************************************************)
(* Claims about the tracker (under SpecTrack).                             *)
(***************************************************************************)
\* thread t enters the undecorated function n in this step
Calls(t, n) == running'[t] = Append(running[t], n)

\* the callback records the call of n on thread t in this step
Records(t, n) ==
    /\ stack'[t] = Append(stack[t], n)
    /\ stack[t] # <<>> => Last(stack[t]) \in callers'[n] /\ n \in callees'[Last(stack[t])]

\* C15: on a thread that holds the callback, a call is recorded exactly
\* when its module matches the filter of the last start_tracking call;
\* when that call gave no filter, every call is recorded.
C15_FilterOfLastStart ==
    [][\A t \in Threads, n \in Plain :
          (hook[t] /\ started_with # None /\ Calls(t, n)) =>
              (Records(t, n) <=> Tracked(n.module, started_with[1]))]_vars

\* C16: between start and stop, a call on any thread whose module passes
\* the tracker's filter is recorded on that thread's stack and in the
\* shared maps.
C16_EveryThreadTracked ==
    [][\A t \in Threads, n \in Plain :
          ((\E u \in Threads : hook[u]) /\ Calls(t, n) /\ Tracked(n.module, tracked_modules)) =>
              Records(t, n)]_vars

\* C17: the stack of a thread holds only functions the thread is
\* executing, and get_depth() is 0 once all of them have returned.
C17_BalancedStack ==
    \A t \in Threads :
        /\ \A k \in 1..Len(stack[t]) : \E j \in 1..Len(running[t]) : running[t][j] = stack[t][k]
        /\ running[t] = <<>> => get_depth(stack[t]) = 0
(***************************************************************************)
(* Claims about the tracker's threads (under SpecThreads).                 *)
(***************************************************************************)
\* C22: whenever the tracker's lock is free, b is in callees[a] exactly
\* when a is in callers[b].
C22_EdgeSymmetry ==
    tracker_lock = None => \A a \in Names, b \in Names : b \in callees[a] <=> a \in callers[b]

\* both threads have recorded an edge, the store was cleared in between,
\* and the lock is free
C22_Witness ==
    /\ tracker_lock = None
    /\ ncontrol = 0
    /\ \E a \in Names, b \in Names : b \in callees[a]
    /\ \A t \in Threads : Len(stack[t]) = 2 /\ pending[t] = None

\* C29: every call of get_global_tracker returns the same instance, and
\* no second tracker is ever constructed.
C29_Singleton ==
    /\ created <= 1
    /\ \A t \in Threads, u \in Threads : (got[t] # 0 /\ got[u] # 0) => got[t] = got[u]

(***************************************************************************)
(* analyzer.InferenceEngine.                                               *)
(***************************************************************************)
MIN_OBSERVATIONS == 5
FullConfidence == 100

\* models.InferredInvariant; the description is the text after the
\* parameter, with the type name it ends in (if any); the confidence is in
\* hundredths.
InferredInvariant(parameter, invariant_type, description, observations_count, supporting_count) ==
    [parameter |-> parameter, invariant_type |-> invariant_type, description |-> description,
     confidence |-> FullConfidence, observations_count |-> observations_count,
     supporting_count |-> supporting_count]

RECURSIVE Filter(_, _)
\* [x for x in s if keep[x]] with keep given as a set
Filter(s, keep) ==
    IF s = <<>> THEN <<>>
    ELSE (IF s[1] \in keep THEN <<s[1]>> ELSE <<>>) \o Filter(Tail(s), keep)

Range(s) == {s[i] : i \in 1..Len(s)}
MinOf(S) == CHOOSE m \in S : \A x \in S : m <= x

\* _infer_param_invariants with the second range test not chained to the
\* first (if instead of elif)
_infer_param_invariants_bothRanges(param, analyses) ==
    LET none_count == Cardinality({i \in 1..Len(analyses) : analyses[i].is_none})
        types == {analyses[i].type_name : i \in {j \in 1..Len(analyses) : ~analyses[j].is_none}}
        ntypes == Cardinality({i \in 1..Len(analyses) : ~analyses[i].is_none})
        nvalues == Cardinality({i \in 1..Len(analyses) : analyses[i].numeric_value # None})
        values == {analyses[i].numeric_value[1] : i \in {j \in 1..Len(analyses) : analyses[j].numeric_value # None}}
        nempties == Cardinality({i \in 1..Len(analyses) : analyses[i].collection_is_empty # None})
        empties == {analyses[i].collection_is_empty[1] : i \in {j \in 1..Len(analyses) : analyses[j].collection_is_empty # None}}
    IN  (IF none_count = 0
         THEN <<InferredInvariant(param, "nullability", <<"is never None", "">>, Len(analyses), Len(analyses))>>
         ELSE <<>>)
        \o
        (IF Cardinality(types) = 1 /\ ntypes > 0
         THEN <<InferredInvariant(param, "type", <<"is always", CHOOSE ty \in types : TRUE>>, Len(analyses), ntypes)>>
         ELSE <<>>)
        \o
        (IF nvalues >= MIN_OBSERVATIONS
         THEN (IF MinOf(values) > 0
               THEN <<InferredInvariant(param, "range", <<"is always > 0", "">>, nvalues, nvalues)>>
               ELSE <<>>)
              \o
              (IF MinOf(values) >= 0
               THEN <<InferredInvariant(param, "range", <<"is always >= 0", "">>, nvalues, nvalues)>>
               ELSE <<>>)
         ELSE <<>>)
        \o
        (IF nempties > 0 /\ empties = {FALSE} /\ nempties >= MIN_OBSERVATIONS
         THEN <<InferredInvariant(param, "collection", <<"is never empty", "">>, nempties, nempties)>>
         ELSE <<>>)

\* analyzer.py:189-269
_infer_param_invariants(param, analyses) ==
    LET none_count == Cardinality({i \in 1..Len(analyses) : analyses[i].is_none})
        types == {analyses[i].type_name : i \in {j \in 1..Len(analyses) : ~analyses[j].is_none}}
        ntypes == Cardinality({i \in 1..Len(analyses) : ~analyses[i].is_none})
        nvalues == Cardinality({i \in 1..Len(analyses) : analyses[i].numeric_value # None})
        values == {analyses[i].numeric_value[1] : i \in {j \in 1..Len(analyses) : analyses[j].numeric_value # None}}
        nempties == Cardinality({i \in 1..Len(analyses) : analyses[i].collection_is_empty # None})
        empties == {analyses[i].collection_is_empty[1] : i \in {j \in 1..Len(analyses) : analyses[j].collection_is_empty # None}}
    IN  (IF none_count = 0
         THEN <<InferredInvariant(param, "nullability", <<"is never None", "">>, Len(analyses), Len(analyses))>>
         ELSE <<>>)
        \o
        (IF Cardinality(types) = 1 /\ ntypes > 0
         THEN <<InferredInvariant(param, "type", <<"is always", CHOOSE ty \in types : TRUE>>, Len(analyses), ntypes)>>
         ELSE <<>>)
        \o
        (IF nvalues >= MIN_OBSERVATIONS
         THEN IF MinOf(values) > 0
              THEN <<InferredInvariant(param, "range", <<"is always > 0", "">>, nvalues, nvalues)>>
              ELSE IF MinOf(values) >= 0
              THEN <<InferredInvariant(param, "range", <<"is always >= 0", "">>, nvalues, nvalues)>>
              ELSE <<>>
         ELSE <<>>)
        \o
        (IF nempties > 0 /\ empties = {FALSE} /\ nempties >= MIN_OBSERVATIONS
         THEN <<InferredInvariant(param, "collection", <<"is never empty", "">>, nempties, nempties)>>
         ELSE <<>>)

\* analyzer.py:171-175: the value bound to param in one observation (the
\* first pair with that name), as a sequence of zero or one analyses
ArgOf(obs, param) ==
    LET hits == {i \in 1..Len(obs.arguments) : obs.arguments[i][1] = param}
    IN  IF hits = {} THEN <<>> ELSE <<obs.arguments[MinOf(hits)][2]>>

RECURSIVE ArgAnalyses(_, _)
ArgAnalyses(observations, param) ==
    IF observations = <<>> THEN <<>>
    ELSE ArgOf(observations[1], param) \o ArgAnalyses(Tail(observations), param)

RECURSIVE ReturnAnalyses(_)
\* analyzer.py:181-183
ReturnAnalyses(observations) ==
    IF observations = <<>> THEN <<>>
    ELSE (IF observations[1].raised_exception = None THEN <<observations[1].return_value>> ELSE <<>>)
         \o ReturnAnalyses(Tail(observations))

RECURSIVE ParamInvariants(_, _)
\* analyzer.py:169-178: the loop over the first observation's parameters
ParamInvariants(observations, arguments) ==
    IF arguments = <<>> THEN <<>>
    ELSE LET analyses == ArgAnalyses(observations, arguments[1][1])
         IN  (IF analyses # <<>> THEN _infer_param_invariants(arguments[1][1], analyses) ELSE <<>>)
             \o ParamInvariants(observations, Tail(arguments))

\* analyzer.py:155-187
_infer_invariants(profile) ==
    IF Len(profile.observations) < MIN_OBSERVATIONS THEN <<>>
    ELSE ParamInvariants(profile.observations, profile.observations[1].arguments)
         \o (IF Len(ReturnAnalyses(profile.observations)) >= MIN_OBSERVATIONS
             THEN _infer_param_invariants("__return__", ReturnAnalyses(profile.observations))
             ELSE <<>>)

\* models.FunctionProfile.is_entry_point / is_leaf, models.py:174-182; the
\* test "__main__" in c looks at the parts of the caller's name
ContainsMain(c) == c.name = "__main__" \/ \E i \in 1..Len(c.module) : c.module[i] = "__main__"
is_entry_point(profile) == profile.callers = {} \/ \E c \in profile.callers : ContainsMain(c)
is_leaf(profile) == Cardinality(profile.callees) = 0

\* _classify_role with >= 3 for > 3 in the entry-point branch
_classify_role_atLeast3(profile) ==
    LET num_callers == Cardinality(profile.callers)
        num_callees == Cardinality(profile.callees)
    IN  IF is_entry_point(profile)
        THEN IF num_callees >= 3 THEN "orchestrator" ELSE "entry_point"
        ELSE IF is_leaf(profile)
        THEN IF /\ profile.observations # <<>>
                /\ \A i \in 1..Len(profile.observations) :
                       profile.observations[i].return_value.type_name = "bool"
             THEN "validator" ELSE "leaf"
        ELSE IF num_callers > 3 /\ num_callees <= 2 THEN "utility"
        ELSE IF num_callees > 3 THEN "orchestrator"
        ELSE IF num_callers <= 2 /\ num_callees > 1 THEN "coordinator"
        ELSE "unknown"

\* analyzer.py:121-153
_classify_role(profile) ==
    LET num_callers == Cardinality(profile.callers)
        num_callees == Cardinality(profile.callees)
    IN  IF is_entry_point(profile)
        THEN IF num_callees > 3 THEN "orchestrator" ELSE "entry_point"
        ELSE IF is_leaf(profile)
        THEN IF /\ profile.observations # <<>>
                /\ \A i \in 1..Len(profile.observations) :
                       profile.observations[i].return_value.type_name = "bool"
             THEN "validator" ELSE "leaf"
        ELSE IF num_callers > 3 /\ num_callees <= 2 THEN "utility"
        ELSE IF num_callees > 3 THEN "orchestrator"
        ELSE IF num_callers <= 2 /\ num_callees > 1 THEN "coordinator"
        ELSE "unknown"
(***************************************************************************)
(* SpecInv: the profile under analysis is built one recorded call at a     *)
(* time and handed to _infer_invariants.  SpecRole: callers, callees and   *)
(* recorded calls are added and the profile is handed to _classify_role.   *)
(***************************************************************************)
MaxObs == 5
MaxRoleObs == 2
MaxPeers == 4

\* The sample function of SpecInv: checked(x) raises ValueError on a
\* negative int and returns x otherwise.
InferArgs == {<<>>, <<PyInt(1)>>, <<PyInt(0)>>, <<PyInt(-1)>>, <<PyNone>>, <<PyList(1)>>, <<PyList(0)>>}
Checked(args) ==
    IF Len(args) # Len(Params) THEN Raise("TypeError")
    ELSE IF args[1].type = "int" /\ args[1].n < 0 THEN Raise("ValueError")
    ELSE Return(args[1])

\* The sample outcomes of SpecRole.
RoleOutcomes == {Return(PyBool(TRUE)), Return(PyInt(1)), Raise("ValueError")}

\* What the wrapper records for a call with args on which the function
\* does fout, made outside tracking (no caller, depth 0).
RecordedCall(args, fout, k) ==
    Observation([Frame("f", args, fout, 1) EXCEPT !.analyzed_args = AnalyzedArgs(args)], UtcTime(k))

PeerName(i) == CASE i = 1 -> "h1" [] i = 2 -> "h2" [] i = 3 -> "h3" [] i = 4 -> "h4" [] i = 5 -> "h5" [] OTHER -> "h6"
Peers == {QN(ModApp, PeerName(i)) : i \in 1..MaxPeers}
MainName == QN(<<"__main__">>, "main")


AddObservation(args) ==
    /\ Len(iprofile.observations) < MaxObs
    /\ iprofile' = [iprofile EXCEPT !.call_count = @ + 1, !.min_call_depth = 0,
                        !.observations = Append(@, RecordedCall(args, Checked(args), Len(@)))]
    /\ invariants' = None
    /\ UNCHANGED role
    /\ UNCHANGED <<wvars, svars, pvars, tvars>>

InferInvariants ==
    /\ invariants = None
    /\ invariants' = Some(_infer_invariants(iprofile))
    /\ UNCHANGED <<iprofile, role>>
    /\ UNCHANGED <<wvars, svars, pvars, tvars>>

AddCaller(c) ==
    /\ c \notin iprofile.callers
    /\ iprofile' = [iprofile EXCEPT !.callers = @ \cup {c}]
    /\ role' = None
    /\ UNCHANGED invariants
    /\ UNCHANGED <<wvars, svars, pvars, tvars>>

AddCallee(c) ==
    /\ c \notin iprofile.callees
    /\ iprofile' = [iprofile EXCEPT !.callees = @ \cup {c}]
    /\ role' = None
    /\ UNCHANGED invariants
    /\ UNCHANGED <<wvars, svars, pvars, tvars>>

AddReturn(fout) ==
    /\ Len(iprofile.observations) < MaxRoleObs
    /\ iprofile' = [iprofile EXCEPT !.call_count = @ + 1, !.min_call_depth = 0,
                        !.observations = Append(@, RecordedCall(<<PyInt(1)>>, fout, Len(@)))]
    /\ role' = None
    /\ UNCHANGED invariants
    /\ UNCHANGED <<wvars, svars, pvars, tvars>>

ClassifyRole ==
    /\ role = None
    /\ role' = Some(_classify_role(iprofile))
    /\ UNCHANGED <<iprofile, invariants>>
    /\ UNCHANGED <<wvars, svars, pvars, tvars>>

InvNext ==
    \/ \E args \in InferArgs : AddObservation(args)
    \/ InferInvariants

RoleNext ==
    \/ \E c \in Peers \cup {MainName} : AddCaller(c)
    \/ \E c \in Peers : AddCallee(c)
    \/ \E fout \in RoleOutcomes : AddReturn(fout)
    \/ ClassifyRole
(***************************************************************************)
(* writer: source files and the patcher.                                   *)
(*                                                                         *)
(* The text of a file is the sequence of its lines as                      *)
(* str.splitlines(keepends=True) gives them; eol says whether the line     *)
(* ends in "\n" (only the last line of a file can lack it).  A line is a   *)
(* statement, a def or async def header, a further line of a header that   *)
(* spans several lines ("sig"), a def with its body on the same line (a    *)
(* pass: "def: pass", or a docstring: "def: doc"), a one-line docstring, a *)
(* pass, or                                                                *)
(* one of the lines the patcher formats: the triple quotes, a text line or *)
(* a blank line; a "broken" line is one the Python grammar rejects.        *)
(***************************************************************************)
MaxItems == 2
\* entries passed to apply_docstrings, over all its runs
MaxDocs == 2
\* seconds that pass on the wall clock
MaxTicks == 1

Line(kind, name, indent) == [kind |-> kind, name |-> name, indent |-> indent, eol |-> TRUE]

\* The top-level items a source file is made of.
StmtLines == <<Line("stmt", "x = 1", 0)>>
FuncLines(kind, name, doc) ==
    <<Line(kind, name, 0)>> \o (IF doc THEN <<Line("doc", "old", 4)>> ELSE <<>>) \o <<Line("pass", "", 4)>>
Items == {StmtLines, FuncLines("def", "f", FALSE), FuncLines("def", "f", TRUE), FuncLines("async def", "g", FALSE)}

\* a def whose signature spans three lines, and a def whose one-statement
\* body (a pass or a docstring) is on the def line
SigLines(name) == <<Line("def", name, 0), Line("sig", "x,", 4), Line("sig", "):", 0), Line("pass", "", 4)>>
OneLine(name, doc) == <<Line(IF doc THEN "def: doc" ELSE "def: pass", name, 0)>>
DefKinds == {"def", "async def", "def: pass", "def: doc"}
PlaceItems == {StmtLines, FuncLines("def", "f", FALSE), FuncLines("def", "f", TRUE), SigLines("f"), OneLine("f", FALSE), OneLine("f", TRUE)}
PlaceSources == {a \o b : a \in PlaceItems \cup {<<>>}, b \in PlaceItems}

RECURSIVE Texts(_)
\* the texts of at most n items, every line ending in "\n"
Texts(n) ==
    IF n = 0 THEN {<<>>}
    ELSE Texts(n - 1) \cup {t \o i : t \in Texts(n - 1), i \in Items}

\* the same text without the final "\n"
Chomp(text) == IF text = <<>> THEN text ELSE [text EXCEPT ![Len(text)].eol = FALSE]
Sources == Texts(MaxItems) \cup {Chomp(t) : t \in Texts(MaxItems)}

\* a file that does not compile, with and without its final "\n"
BrokenLines == <<Line("broken", "def f(:", 0)>> \o <<Line("pass", "", 4)>>

\* the source files, and Path.with_suffix(".py.bak.<timestamp>") of
\* writer.py:55-56: the last suffix of the name is replaced, and the
\* timestamp has the resolution of a second
Paths == {"app.py", "lib.py"}
BackupPath(path, second) ==
    [stem |-> IF path = "app.py" THEN "app" ELSE "lib", suffix |-> <<"py", "bak", second>>]

\* shutil.copy(path, backup_path): the copy replaces a file of that name
shutil_copy(files, text, backup_path) ==
    {b \in files : b.path # backup_path} \cup {[path |-> backup_path, text |-> text]}

\* models.HumanInput, models.py:244-251; an absent str is the empty str,
\* which the code treats alike
HumanInput(business_purpose, architectural_context, additional_invariants, parameter_descriptions, return_description) ==
    [business_purpose |-> business_purpose, architectural_context |-> architectural_context,
     additional_invariants |-> additional_invariants,
     parameter_descriptions |-> parameter_descriptions, return_description |-> return_description]

\* models.InferredPosition, models.py:222-228
InferredPosition(structural_role, call_graph_description, io_description) ==
    [structural_role |-> structural_role, call_graph_description |-> call_graph_description,
     io_description |-> io_description, depth_description |-> ""]

\* models.GeneratedDocstring as the pipeline hands it to the writer: no
\* role, no invariants, no parameters, no return analysis; inferred_params
\* is the dict's items in insertion order
GeneratedDocstring(file_path, name, line_number) ==
    [qualname |-> Qual(name), file_path |-> file_path, line_number |-> line_number,
     inferred_position |-> InferredPosition("unknown", "", ""),
     inferred_invariants |-> <<>>, inferred_params |-> <<>>, inferred_return |-> None,
     human_input |-> HumanInput(IF name = "f" THEN "Summary of f" ELSE "", "", <<>>, <<>>, "")]

\* GeneratedDocstring._role_to_description, models.py:340-355
_role_to_description(r) ==
    CASE r = "entry_point" -> "Entry point."
      [] r = "orchestrator" -> "Orchestrator that coordinates multiple operations."
      [] r = "coordinator" -> "Coordinator."
      [] r = "utility" -> "Utility function."
      [] r = "leaf" -> "Leaf function with no dependencies."
      [] r = "transformer" -> "Data transformer."
      [] r = "validator" -> "Validator."
      [] r = "io_reader" -> "I/O reader."
      [] r = "io_writer" -> "I/O writer."
      [] OTHER -> ""

RECURSIVE join(_, _)
\* sep.join(parts)
join(sep, parts) ==
    IF parts = <<>> THEN ""
    ELSE IF Len(parts) = 1 THEN parts[1]
    ELSE parts[1] \o sep \o join(sep, Tail(parts))

\* models.py:309: the confidence, in hundredths, from which an inferred
\* invariant is printed
ShownConfidence == 95

\* render with the Parameters block put before the Invariants block
render_paramsFirst(doc) ==
    LET h == doc.human_input
        pos == doc.inferred_position
        position_parts == SelectSeq(<<_role_to_description(pos.structural_role), pos.call_graph_description,
                                      pos.io_description, h.architectural_context>>, LAMBDA part : part # "")
        shown == SelectSeq(doc.inferred_invariants, LAMBDA inv : inv.confidence >= ShownConfidence)
        all_invariants == [k \in 1..Len(shown) |-> shown[k].description] \o h.additional_invariants
        params == doc.inferred_params
        human_desc(param) == IF param \in DOMAIN h.parameter_descriptions THEN h.parameter_descriptions[param] ELSE ""
    IN  (IF h.business_purpose # "" THEN <<h.business_purpose, "">> ELSE <<>>)
        \o <<"Position", "--------",
             IF position_parts # <<>> THEN join(" ", position_parts) ELSE "TODO: Add position description", "">>
        \o (IF params # <<>>
            THEN <<"Parameters", "----------">>
                 \o [k \in 1..(2 * Len(params)) |->
                       IF k % 2 = 1 THEN params[(k + 1) \div 2][1] \o " : " \o params[(k + 1) \div 2][2].type_name
                       ELSE "    " \o (IF human_desc(params[k \div 2][1]) # "" THEN human_desc(params[k \div 2][1])
                                      ELSE "TODO: Add description")]
                 \o <<"">>
            ELSE <<>>)
        \o (IF all_invariants # <<>>
            THEN <<"Invariants", "----------">> \o [k \in 1..Len(all_invariants) |-> "- " \o all_invariants[k]] \o <<"">>
            ELSE <<>>)
        \o (IF doc.inferred_return # None
            THEN (IF doc.inferred_return[1].type_name # "NoneType"
                  THEN <<"Returns", "-------", doc.inferred_return[1].type_name,
                         "    " \o (IF h.return_description # "" THEN h.return_description ELSE "TODO: Add description")>>
                  ELSE <<>>)
            ELSE <<>>)

\* GeneratedDocstring.render(), models.py:271-338: the list lines that is
\* joined with newlines
render(doc) ==
    LET h == doc.human_input
        pos == doc.inferred_position
        position_parts == SelectSeq(<<_role_to_description(pos.structural_role), pos.call_graph_description,
                                      pos.io_description, h.architectural_context>>, LAMBDA part : part # "")
        shown == SelectSeq(doc.inferred_invariants, LAMBDA inv : inv.confidence >= ShownConfidence)
        all_invariants == [k \in 1..Len(shown) |-> shown[k].description] \o h.additional_invariants
        params == doc.inferred_params
        human_desc(param) == IF param \in DOMAIN h.parameter_descriptions THEN h.parameter_descriptions[param] ELSE ""
    IN  (IF h.business_purpose # "" THEN <<h.business_purpose, "">> ELSE <<>>)
        \o <<"Position", "--------",
             IF position_parts # <<>> THEN join(" ", position_parts) ELSE "TODO: Add position description", "">>
        \o (IF all_invariants # <<>>
            THEN <<"Invariants", "----------">> \o [k \in 1..Len(all_invariants) |-> "- " \o all_invariants[k]] \o <<"">>
            ELSE <<>>)
        \o (IF params # <<>>
            THEN <<"Parameters", "----------">>
                 \o [k \in 1..(2 * Len(params)) |->
                       IF k % 2 = 1 THEN params[(k + 1) \div 2][1] \o " : " \o params[(k + 1) \div 2][2].type_name
                       ELSE "    " \o (IF human_desc(params[k \div 2][1]) # "" THEN human_desc(params[k \div 2][1])
                                      ELSE "TODO: Add description")]
                 \o <<"">>
            ELSE <<>>)
        \o (IF doc.inferred_return # None
            THEN (IF doc.inferred_return[1].type_name # "NoneType"
                  THEN <<"Returns", "-------", doc.inferred_return[1].type_name,
                         "    " \o (IF h.return_description # "" THEN h.return_description ELSE "TODO: Add description")>>
                  ELSE <<>>)
            ELSE <<>>)

\* "\n".join(lines).splitlines(), on lines that hold no line break: one
\* trailing empty line is dropped
splitlines(lines) == IF lines = <<>> THEN <<>> ELSE IF Last(lines) = "" THEN Front(lines) ELSE lines

\* ast.parse: the FunctionDef and AsyncFunctionDef nodes of a text, in the
\* order ast.walk visits them; body_lineno is body[0].lineno, the line
\* after the header or the def line itself; docstring is None or the line
\* of the docstring statement (which ends on the same line)
FunctionNode(lines, i) ==
    LET after == {j \in (i + 1)..Len(lines) : lines[j].kind # "sig"}
        body_lineno == IF lines[i].kind \in {"def: pass", "def: doc"} THEN i
                       ELSE IF after = {} THEN Len(lines) + 1
                       ELSE CHOOSE j \in after : \A k \in after : j <= k
    IN  [lineno |-> i, name |-> lines[i].name, is_async |-> lines[i].kind = "async def",
         body_lineno |-> body_lineno,
         docstring |-> IF body_lineno <= Len(lines)
                       THEN (IF lines[body_lineno].kind \in {"doc", "def: doc"} THEN Some(body_lineno) ELSE None)
                       ELSE None]

\* ast.parse raises SyntaxError
SyntaxError(lines) == \E i \in 1..Len(lines) : lines[i].kind = "broken"

RECURSIVE ParseFrom(_, _)
ParseFrom(lines, i) ==
    IF i > Len(lines) THEN <<>>
    ELSE (IF lines[i].kind \in DefKinds THEN <<FunctionNode(lines, i)>> ELSE <<>>)
         \o ParseFrom(lines, i + 1)
ast_parse(lines) == ParseFrom(lines, 1)

\* writer.py:137-145
_find_function_node(tree, line_number) ==
    LET hits == {k \in 1..Len(tree) : tree[k].lineno = line_number}
    IN  IF hits = {} THEN None ELSE Some(tree[MinOf(hits)])

\* writer.py:96-104
FormattedLines(doc, indent) ==
    LET content == splitlines(render(doc))
    IN  <<Line("quotes", "", indent)>>
        \o [k \in 1..Len(content) |->
              IF content[k] # "" THEN Line("text", content[k], indent) ELSE Line("blank", "", 0)]
        \o <<Line("quotes", "", indent)>>

\* lines[a:b] = new, with Python's 0-based, clamped slice bounds
Splice(lines, a, b, new) ==
    LET lo == Min2(a, Len(lines))
        hi == Min2(Max2(a, b), Len(lines))
    IN  SubSeq(lines, 1, lo) \o new \o SubSeq(lines, hi + 1, Len(lines))

\* writer.py:79-130, one round of the loop on st = [lines, applied];
\* applied collects the entries whose docstring was written.  A parsed
\* function has at least one body statement, so the branch of line 130 is
\* never taken.
ApplyOne(st, tree, doc) ==
    LET found == _find_function_node(tree, doc.line_number)
    IN  IF found = None THEN st
        ELSE IF found[1].lineno - 1 >= Len(st.lines) THEN st
        ELSE LET func_node == found[1]
                 body_indent == st.lines[func_node.lineno].indent + 4
                 formatted_lines == FormattedLines(doc, body_indent)
             IN  IF func_node.docstring # None
                 THEN [lines |-> Splice(st.lines, func_node.docstring[1] - 1, func_node.docstring[1], formatted_lines),
                       applied |-> Append(st.applied, doc)]
                 ELSE [lines |-> Splice(st.lines, func_node.body_lineno - 1, func_node.body_lineno - 1, formatted_lines),
                       applied |-> Append(st.applied, doc)]

RECURSIVE ApplyAll(_, _, _)
ApplyAll(st, tree, docs) ==
    IF docs = <<>> THEN st ELSE ApplyAll(ApplyOne(st, tree, docs[1]), tree, Tail(docs))

\* list.sort(key=line_number, reverse=True), writer.py:77: stable, so
\* entries of one line keep their order
InsertDesc(sorted, doc) ==
    LET before == {k \in 1..Len(sorted) : sorted[k].line_number >= doc.line_number}
        n == IF before = {} THEN 0 ELSE CHOOSE k \in before : \A j \in before : j <= k
    IN  SubSeq(sorted, 1, n) \o <<doc>> \o SubSeq(sorted, n + 1, Len(sorted))

RECURSIVE SortDesc(_)
SortDesc(docs) ==
    IF docs = <<>> THEN <<>> ELSE InsertDesc(SortDesc(Front(docs)), Last(docs))

\* writer.py:64-66
EnsureNewline(lines) ==
    IF lines # <<>> THEN (IF ~Last(lines).eol THEN [lines EXCEPT ![Len(lines)].eol = TRUE] ELSE lines)
    ELSE lines

\* _apply_to_file writing the normalised lines back when ast.parse fails
_apply_to_file_writeOnError(text, docstrings) ==
    IF SyntaxError(text)
    THEN [write |-> TRUE, printed |-> "syntax error", lines |-> EnsureNewline(text), applied |-> <<>>, docstrings |-> docstrings]
    ELSE LET st == ApplyAll([lines |-> EnsureNewline(text), applied |-> <<>>], ast_parse(text), SortDesc(docstrings))
         IN  [write |-> TRUE, printed |-> "updated", lines |-> st.lines, applied |-> st.applied, docstrings |-> SortDesc(docstrings)]

\* writer.py:60-134: whether the file is written, what the console is
\* told, the lines written back, the entries applied, and the caller's
\* list as the call leaves it
_apply_to_file(text, docstrings) ==
    IF SyntaxError(text)
    THEN [write |-> FALSE, printed |-> "syntax error", lines |-> text, applied |-> <<>>, docstrings |-> docstrings]
    ELSE LET st == ApplyAll([lines |-> EnsureNewline(text), applied |-> <<>>], ast_parse(text), SortDesc(docstrings))
         IN  [write |-> TRUE, printed |-> "updated", lines |-> st.lines, applied |-> st.applied, docstrings |-> SortDesc(docstrings)]



\* apply_docstrings, writer.py:40-42:
\* by_file.setdefault(doc.file_path, []).append(doc)
setdefault_append(groups, doc) ==
    LET hits == {k \in 1..Len(groups) : groups[k].file_path = doc.file_path}
    IN  IF hits = {} THEN Append(groups, [file_path |-> doc.file_path, docs |-> <<doc>>])
        ELSE [groups EXCEPT ![MinOf(hits)].docs = Append(@, doc)]

\* where the loop of writer.py:44-45 goes after the file at next_file
AfterFile == IF next_file < Len(by_file) THEN "backup" ELSE "done"

\* apply_docstrings, writer.py:39-42: one entry is grouped under its file;
\* the first entry of a run starts the run
QueueDocstring(doc) ==
    /\ stage \in {"group", "done"}
    /\ ndocs < MaxDocs
    /\ ndocs' = ndocs + 1
    /\ stage' = "group"
    /\ by_file' = setdefault_append(IF stage = "done" THEN <<>> ELSE by_file, doc)
    /\ next_file' = 1
    /\ original' = IF stage = "done" THEN [p \in Paths |-> None] ELSE original
    /\ applied' = IF stage = "done" THEN [p \in Paths |-> <<>>] ELSE applied
    /\ log' = IF stage = "done" THEN <<>> ELSE log
    /\ UNCHANGED <<source, backups, clock>>
    /\ UNCHANGED <<wvars, ivars, svars, tvars>>

\* CreateBackup going on to the write when shutil.copy raises
CreateBackup_ignoreFailure(ok) ==
    /\ stage \in {"group", "backup"}
    /\ LET path == by_file[next_file].file_path
       IN  IF source[path] = None
           THEN /\ log' = Append(log, [path |-> path, result |-> "not found"])
                /\ stage' = AfterFile
                /\ next_file' = next_file + 1
                /\ UNCHANGED <<backups, original>>
           ELSE IF ok
           THEN /\ backups' = shutil_copy(backups, source[path][1], BackupPath(path, clock))
                /\ original' = [original EXCEPT ![path] = source[path]]
                /\ stage' = "write"
                /\ UNCHANGED <<log, next_file>>
           ELSE /\ original' = [original EXCEPT ![path] = source[path]]
                /\ stage' = "write"
                /\ UNCHANGED <<backups, log, next_file>>
    /\ UNCHANGED <<source, clock, by_file, applied, ndocs>>
    /\ UNCHANGED <<wvars, ivars, svars, tvars>>

\* apply_docstrings, writer.py:44-45, entering _apply_to_file for the next
\* file, and _apply_to_file, writer.py:50-58: a missing file is skipped;
\* shutil.copy makes the backup (ok) or raises, which ends the run
CreateBackup(ok) ==
    /\ stage \in {"group", "backup"}
    /\ LET path == by_file[next_file].file_path
       IN  IF source[path] = None
           THEN /\ log' = Append(log, [path |-> path, result |-> "not found"])
                /\ stage' = AfterFile
                /\ next_file' = next_file + 1
                /\ UNCHANGED <<backups, original>>
           ELSE IF ok
           THEN /\ backups' = shutil_copy(backups, source[path][1], BackupPath(path, clock))
                /\ original' = [original EXCEPT ![path] = source[path]]
                /\ stage' = "write"
                /\ UNCHANGED <<log, next_file>>
           ELSE /\ log' = Append(log, [path |-> path, result |-> "backup failed"])
                /\ original' = [original EXCEPT ![path] = source[path]]
                /\ stage' = "done"
                /\ UNCHANGED <<backups, next_file>>
    /\ UNCHANGED <<source, clock, by_file, applied, ndocs>>
    /\ UNCHANGED <<wvars, ivars, svars, tvars>>

\* _apply_to_file, writer.py:60-134, and the return to the loop of
\* apply_docstrings
ApplyToFile ==
    /\ stage = "write"
    /\ LET path == by_file[next_file].file_path
           r == _apply_to_file(source[path][1], by_file[next_file].docs)
       IN  /\ source' = IF r.write THEN [source EXCEPT ![path] = Some(r.lines)] ELSE source
           /\ applied' = [applied EXCEPT ![path] = r.applied]
           /\ by_file' = [by_file EXCEPT ![next_file].docs = r.docstrings]
           /\ log' = Append(log, [path |-> path, result |-> r.printed])
    /\ stage' = AfterFile
    /\ next_file' = next_file + 1
    /\ UNCHANGED <<backups, clock, original, ndocs>>
    /\ UNCHANGED <<wvars, ivars, svars, tvars>>

\* a second passes on the wall clock
Tick ==
    /\ clock < MaxTicks
    /\ clock' = clock + 1
    /\ UNCHANGED <<source, backups, by_file, stage, next_file, original, applied, log, ndocs>>
    /\ UNCHANGED <<wvars, ivars, svars, tvars>>

\* the lines an entry for path can point at: those of the file and one past
TargetLines(path) == 1..((IF source[path] = None THEN 0 ELSE Len(source[path][1])) + 1)

PatchNext ==
    \/ \E path \in Paths, name \in {"f", "g"} : \E n \in TargetLines(path) : QueueDocstring(GeneratedDocstring(path, name, n))
    \/ \E ok \in BOOLEAN : CreateBackup(ok)
    \/ ApplyToFile
    \/ Tick
(***************************************************************************)
(* models: to_dict and from_dict.  A dict is a record (function) from its  *)
(* keys; a Python list is [list |-> items], unlike a tuple, which is the   *)
(* bare sequence; a set is a set.                                          *)
(***************************************************************************)
MaxSerialObs == 1

PyListOf(items) == [list |-> items]
tuple(l) == l.list
Get(data, key, default) == IF key \in DOMAIN data THEN data[key] ELSE default

\* list(s) of a set: the members in one of the orders iteration can take
ListsOf(S) == {PyListOf(q) : q \in {r \in [1..Cardinality(S) -> S] : Range(r) = S}}

\* datetime.isoformat(): the microseconds are written only when they are
\* not zero, the offset only for an aware datetime
isoformat(ts) ==
    [seconds |-> ts.sec,
     fraction |-> IF ts.us = 0 THEN None ELSE Some(ts.us),
     offset |-> IF ts.tz = "naive" THEN None ELSE Some("+00:00")]

\* datetime.fromisoformat()
fromisoformat(str) ==
    [sec |-> str.seconds,
     us |-> IF str.fraction = None THEN 0 ELSE str.fraction[1],
     tz |-> IF str.offset = None THEN "naive" ELSE "UTC"]

\* models.IOPattern: member name and value
IOPatternMembers == {"FILESYSTEM_READ", "NETWORK_CALL", "PURE"}
IOPatternValue(p) ==
    CASE p = "FILESYSTEM_READ" -> "filesystem_read" [] p = "NETWORK_CALL" -> "network_call" [] OTHER -> "pure"
IOPattern(value) == CHOOSE p \in IOPatternMembers : IOPatternValue(p) = value

\* models.py:66-77
ValueAnalysis_to_dict(self) ==
    [type_name |-> self.type_name, is_none |-> self.is_none,
     numeric_value |-> self.numeric_value, string_length |-> self.string_length,
     string_patterns |-> PyListOf(self.string_patterns),
     collection_length |-> self.collection_length,
     collection_is_empty |-> self.collection_is_empty,
     dict_keys |-> PyListOf(self.dict_keys)]

\* models.py:79-91
ValueAnalysis_from_dict(data) ==
    [type_name |-> data.type_name, is_none |-> data.is_none,
     numeric_value |-> Get(data, "numeric_value", None),
     string_length |-> Get(data, "string_length", None),
     string_patterns |-> tuple(Get(data, "string_patterns", PyListOf(<<>>))),
     collection_length |-> Get(data, "collection_length", None),
     collection_is_empty |-> Get(data, "collection_is_empty", None),
     dict_keys |-> tuple(Get(data, "dict_keys", PyListOf(<<>>)))]

\* models.py:116-130
CallObservation_to_dict(self) ==
    [function_name |-> self.function_name, module_name |-> self.module_name,
     qualname |-> self.qualname, file_path |-> self.file_path, line_number |-> self.line_number,
     timestamp |-> isoformat(self.timestamp),
     arguments |-> PyListOf([k \in 1..Len(self.arguments) |->
                       <<self.arguments[k][1], ValueAnalysis_to_dict(self.arguments[k][2])>>]),
     return_value |-> ValueAnalysis_to_dict(self.return_value),
     raised_exception |-> self.raised_exception, caller |-> self.caller, call_depth |-> self.call_depth]

\* models.py:132-149
CallObservation_from_dict(data) ==
    [function_name |-> data.function_name, module_name |-> data.module_name,
     qualname |-> data.qualname, file_path |-> data.file_path, line_number |-> data.line_number,
     timestamp |-> fromisoformat(data.timestamp),
     arguments |-> [k \in 1..Len(tuple(data.arguments)) |->
                       <<tuple(data.arguments)[k][1], ValueAnalysis_from_dict(tuple(data.arguments)[k][2])>>],
     return_value |-> ValueAnalysis_from_dict(data.return_value),
     raised_exception |-> Get(data, "raised_exception", None),
     caller |-> Get(data, "caller", None),
     call_depth |-> Get(data, "call_depth", 0)]

\* FunctionProfile.to_dict without the key min_call_depth
FunctionProfile_to_dict_dropMin(self, callers_list, callees_list, io_list) ==
    [qualname |-> self.qualname, module_name |-> self.module_name,
     file_path |-> self.file_path, line_number |-> self.line_number,
     callers |-> callers_list, callees |-> callees_list,
     call_count |-> self.call_count, max_call_depth |-> self.max_call_depth,
     io_patterns |-> PyListOf([k \in 1..Len(io_list.list) |-> IOPatternValue(io_list.list[k])]),
     observations |-> PyListOf([k \in 1..Len(self.observations) |-> CallObservation_to_dict(self.observations[k])])]

\* models.py:184-198; callers_list, callees_list and io_list are the
\* orders in which the three sets are iterated
FunctionProfile_to_dict(self, callers_list, callees_list, io_list) ==
    [qualname |-> self.qualname, module_name |-> self.module_name,
     file_path |-> self.file_path, line_number |-> self.line_number,
     callers |-> callers_list, callees |-> callees_list,
     call_count |-> self.call_count, max_call_depth |-> self.max_call_depth,
     min_call_depth |-> self.min_call_depth,
     io_patterns |-> PyListOf([k \in 1..Len(io_list.list) |-> IOPatternValue(io_list.list[k])]),
     observations |-> PyListOf([k \in 1..Len(self.observations) |-> CallObservation_to_dict(self.observations[k])])]

\* models.py:200-218
FunctionProfile_from_dict(data) ==
    [qualname |-> data.qualname, module_name |-> data.module_name,
     file_path |-> data.file_path, line_number |-> data.line_number,
     callers |-> Range(Get(data, "callers", PyListOf(<<>>)).list),
     callees |-> Range(Get(data, "callees", PyListOf(<<>>)).list),
     call_count |-> Get(data, "call_count", 0),
     max_call_depth |-> Get(data, "max_call_depth", 0),
     min_call_depth |-> Get(data, "min_call_depth", MinDepthSentinel),
     io_patterns |-> {IOPattern(v) : v \in Range(Get(data, "io_patterns", PyListOf(<<>>)).list)},
     observations |-> [k \in 1..Len(Get(data, "observations", PyListOf(<<>>)).list) |->
                          CallObservation_from_dict(Get(data, "observations", PyListOf(<<>>)).list[k])]]
(***************************************************************************)
(* SpecSerial: an object of one of the three classes is serialised and     *)
(* deserialised.                                                           *)
(***************************************************************************)
SampleAnalyses ==
    {_analyze_value(v) : v \in {PyNone, PyBool(TRUE), PyInt(1), PyStr(2), PyList(0), PyDict(1)}}
    \cup {ExceptionMarker,
          [_analyze_value(PyStr(2)) EXCEPT !.string_patterns = <<"numeric", "email">>],
          [_analyze_value(PyDict(1)) EXCEPT !.dict_keys = <<"k">>]}

SampleTimes == {UtcTime(0), [sec |-> 1, us |-> 5, tz |-> "UTC"], [sec |-> 1, us |-> 0, tz |-> "naive"]}

SampleCalls ==
    {[arguments |-> <<>>, return_value |-> ExceptionMarker, raised_exception |-> Some("TypeError")],
     [arguments |-> <<<<"x", _analyze_value(PyInt(1))>>>>, return_value |-> _analyze_value(PyInt(1)),
      raised_exception |-> None],
     [arguments |-> <<<<"x", [_analyze_value(PyStr(2)) EXCEPT !.string_patterns = <<"numeric">>]>>,
                      <<"y", _analyze_value(PyNone)>>>>,
      return_value |-> [_analyze_value(PyDict(1)) EXCEPT !.dict_keys = <<"k">>], raised_exception |-> None]}

SampleObservations ==
    {CallObservation("f", ts, c.arguments, c.return_value, c.raised_exception, caller, depth) :
        ts \in SampleTimes, c \in SampleCalls, caller \in {None, Some(WrapperName)}, depth \in {0, 2}}

\* the observations the sample profiles hold
ProfileObservations ==
    {o \in SampleObservations : o.call_depth = 2 /\ o.caller # None /\ o.timestamp.sec = 1}

RECURSIVE SeqsUpTo(_, _)
SeqsUpTo(S, n) ==
    IF n = 0 THEN {<<>>} ELSE SeqsUpTo(S, n - 1) \cup {Append(q, x) : q \in SeqsUpTo(S, n - 1), x \in S}

SampleProfiles ==
    {[FunctionProfile("f") EXCEPT !.callers = cs, !.callees = es, !.io_patterns = io,
                                  !.call_count = d[1], !.max_call_depth = d[2], !.min_call_depth = d[3],
                                  !.observations = obs] :
        cs \in SUBSET {WrapperName, MainName}, es \in SUBSET {Qual("g")},
        io \in SUBSET {"FILESYSTEM_READ", "PURE"},
        d \in {<<0, 0, MinDepthSentinel>>, <<2, 4, 2>>},
        obs \in SeqsUpTo(ProfileObservations, MaxSerialObs)}



ValueAnalysisToDict ==
    /\ sobj.cls = "ValueAnalysis"
    /\ wire = None
    /\ wire' = Some(ValueAnalysis_to_dict(sobj.val))
    /\ UNCHANGED <<sobj, restored>>
    /\ UNCHANGED <<wvars, ivars, pvars, tvars>>

ValueAnalysisFromDict ==
    /\ sobj.cls = "ValueAnalysis"
    /\ wire # None
    /\ restored = None
    /\ restored' = Some(ValueAnalysis_from_dict(wire[1]))
    /\ UNCHANGED <<sobj, wire>>
    /\ UNCHANGED <<wvars, ivars, pvars, tvars>>

CallObservationToDict ==
    /\ sobj.cls = "CallObservation"
    /\ wire = None
    /\ wire' = Some(CallObservation_to_dict(sobj.val))
    /\ UNCHANGED <<sobj, restored>>
    /\ UNCHANGED <<wvars, ivars, pvars, tvars>>

CallObservationFromDict ==
    /\ sobj.cls = "CallObservation"
    /\ wire # None
    /\ restored = None
    /\ restored' = Some(CallObservation_from_dict(wire[1]))
    /\ UNCHANGED <<sobj, wire>>
    /\ UNCHANGED <<wvars, ivars, pvars, tvars>>

FunctionProfileToDict ==
    /\ sobj.cls = "FunctionProfile"
    /\ wire = None
    /\ \E cl \in ListsOf(sobj.val.callers), el \in ListsOf(sobj.val.callees), il \in ListsOf(sobj.val.io_patterns) :
          wire' = Some(FunctionProfile_to_dict(sobj.val, cl, el, il))
    /\ UNCHANGED <<sobj, restored>>
    /\ UNCHANGED <<wvars, ivars, pvars, tvars>>

FunctionProfileFromDict ==
    /\ sobj.cls = "FunctionProfile"
    /\ wire # None
    /\ restored = None
    /\ restored' = Some(FunctionProfile_from_dict(wire[1]))
    /\ UNCHANGED <<sobj, wire>>
    /\ UNCHANGED <<wvars, ivars, pvars, tvars>>

SerialNext ==
    \/ ValueAnalysisToDict
    \/ ValueAnalysisFromDict
    \/ CallObservationToDict
    \/ CallObservationFromDict
    \/ FunctionProfileToDict
    \/ FunctionProfileFromDict

(***************************************************************************)
(* SpecAnalyze: _analyze_value is applied to one value.                    *)
(***************************************************************************)
\* keys of the largest dict
MaxKeys == 22
\* elements of the longest list, tuple, set, frozenset, bytes or range
MaxCollLen == 3

SampleTexts ==
    {<<>>,
     <<"a">>,
     <<"a", ".", "p", "y">>,
     <<"a", ".", "c", "s", "v">>,
     <<"b", ".", "j", "s", "o", "n">>,
     <<"c", ".", "y", "a", "m", "l">>,
     <<"c", ".", "y", "m", "l">>,
     <<"d", ".", "t", "x", "t">>,
     <<"e", ".", "m", "d">>,
     <<"a", "@", "b", ".", "c">>,
     <<"a", "@", "b">>,
     <<"/", "a">>,
     <<".", "/", "a", ".", "m", "d">>,
     <<".", ".", "/", "a">>,
     <<"h", "t", "t", "p", ":", "/", "/", "a">>,
     <<"h", "t", "t", "p", "s", ":", "/", "/", "a", ".", "p", "y">>,
     <<"h", "t", "t", "p", ":", "/", "a">>,
     <<"@", ".", "c", "s", "v">>}

SampleValues ==
    {PyNone, PyHuge, PyBool(TRUE), PyBool(FALSE)}
    \cup {PyValue(ty, k, FALSE, <<>>) : ty \in {"int", "float"}, k \in -1..1}
    \cup {PyText(t) : t \in SampleTexts}
    \cup {PyColl(ty, n) : ty \in {"list", "tuple", "set", "frozenset", "bytes", "range"}, n \in 0..MaxCollLen}
    \cup {PyDict(n) : n \in 0..MaxKeys}

\* one call of _analyze_value: it returns an analysis or raises
AnalyzeValue ==
    /\ sobj.cls = "value"
    /\ wire = None
    /\ wire' = Some(IF AnalyzeRaises(sobj.val) THEN Raise("OverflowError") ELSE Return(_analyze_value(sobj.val)))
    /\ UNCHANGED <<sobj, restored>>
    /\ UNCHANGED <<wvars, ivars, pvars, tvars>>

AnalyzeNext == AnalyzeValue

(***************************************************************************)
(* SpecRender: one GeneratedDocstring is rendered.                         *)
(***************************************************************************)
\* inferred invariants of a docstring
MaxInvariants == 3

\* the confidences (hundredths) of the inferred invariants i1, i2, ...
SampleConfidences == {c \in UNION {[1..n -> {94, 95, 100}] : n \in 0..MaxInvariants} : \A k \in 1..Len(c) : k > 1 => c[k] # c[k - 1]}

SampleDocstrings ==
    {[qualname |-> Qual("f"), file_path |-> "app.py", line_number |-> 1,
      inferred_position |-> InferredPosition(r, cg, io),
      inferred_invariants |-> [k \in 1..Len(c) |->
          [InferredInvariant("x", "type", "i" \o ToString(k), 10, 10) EXCEPT !.confidence = c[k]]],
      inferred_params |-> ps,
      inferred_return |-> ret,
      human_input |-> HumanInput(h.purpose, h.context, h.added, h.descs, h.ret)] :
        r \in {"unknown", "leaf"}, cg \in {"", "Called by main."}, io \in {"", "Reads files."},
        c \in SampleConfidences,
        ps \in {<<>>, <<<<"x", _analyze_value(PyInt(1))>>, <<"y", _analyze_value(PyNone)>>>>},
        ret \in {None, Some(_analyze_value(PyNone)), Some(_analyze_value(PyInt(1)))},
        h \in {[purpose |-> "", context |-> "", added |-> <<>>, descs |-> <<>>, ret |-> ""],
               [purpose |-> "Summary of f", context |-> "Core module.", added |-> <<"h1", "h2">>,
                descs |-> [q \in {"y"} |-> "the y"], ret |-> "the result"]}}

\* one call of render
Render ==
    /\ sobj.cls = "GeneratedDocstring"
    /\ wire = None
    /\ wire' = Some(render(sobj.val))
    /\ UNCHANGED <<sobj, restored>>
    /\ UNCHANGED <<wvars, ivars, pvars, tvars>>

RenderNext == Render

(***************************************************************************)
(* SpecSession: an ObservationSession is serialised and deserialised.  The *)
(* dict functions is a function from its keys to profiles.                 *)
(***************************************************************************)
\* models.py:367-386; the lists are the orders in which the callers and
\* callees of each profile and the completed functions are iterated
ObservationSession_to_dict(self, callers_lists, callees_lists, completed_list) ==
    [session_id |-> self.session_id, started_at |-> isoformat(self.started_at),
     script_path |-> self.script_path,
     functions |-> [k \in DOMAIN self.functions |->
                      [qualname |-> self.functions[k].qualname, module_name |-> self.functions[k].module_name,
                       file_path |-> self.functions[k].file_path, line_number |-> self.functions[k].line_number,
                       callers |-> callers_lists[k], callees |-> callees_lists[k],
                       call_count |-> self.functions[k].call_count]],
     completed_functions |-> completed_list]

\* models.py:388-409: the profiles are built from the seven keys written,
\* the other fields of FunctionProfile take their defaults (models.py:163-169)
ObservationSession_from_dict(data) ==
    [session_id |-> data.session_id, started_at |-> fromisoformat(data.started_at),
     script_path |-> data.script_path,
     functions |-> [k \in DOMAIN Get(data, "functions", <<>>) |->
                      LET v == data.functions[k]
                      IN  [qualname |-> v.qualname, module_name |-> v.module_name,
                           file_path |-> v.file_path, line_number |-> v.line_number,
                           callers |-> Range(Get(v, "callers", PyListOf(<<>>)).list),
                           callees |-> Range(Get(v, "callees", PyListOf(<<>>)).list),
                           call_count |-> Get(v, "call_count", 0),
                           max_call_depth |-> 0, min_call_depth |-> MinDepthSentinel,
                           io_patterns |-> {}, observations |-> <<>>]],
     completed_functions |-> Range(Get(data, "completed_functions", PyListOf(<<>>)).list)]

\* the sessions serialised: no profile or one, under the key "app.f"
SampleSessions ==
    {[session_id |-> "s1", started_at |-> ts, script_path |-> "app.py", functions |-> fs, completed_functions |-> done] :
        ts \in SampleTimes,
        fs \in {<<>>} \cup {[k \in {"app.f"} |-> p] : p \in SampleProfiles},
        done \in SUBSET {"app.f", "app.g"}}

\* for each key of functions, one of the lists of the set field gives
OrdersOf(functions, field) ==
    {ls \in [DOMAIN functions -> UNION {ListsOf(field[k]) : k \in DOMAIN functions}] :
        \A k \in DOMAIN functions : ls[k] \in ListsOf(field[k])}

ObservationSessionToDict ==
    /\ sobj.cls = "ObservationSession"
    /\ wire = None
    /\ \E cl \in OrdersOf(sobj.val.functions, [k \in DOMAIN sobj.val.functions |-> sobj.val.functions[k].callers]),
          el \in OrdersOf(sobj.val.functions, [k \in DOMAIN sobj.val.functions |-> sobj.val.functions[k].callees]),
          dl \in ListsOf(sobj.val.completed_functions) :
          wire' = Some(ObservationSession_to_dict(sobj.val, cl, el, dl))
    /\ UNCHANGED <<sobj, restored>>
    /\ UNCHANGED <<wvars, ivars, pvars, tvars>>

ObservationSessionFromDict ==
    /\ sobj.cls = "ObservationSession"
    /\ wire # None
    /\ restored = None
    /\ restored' = Some(ObservationSession_from_dict(wire[1]))
    /\ UNCHANGED <<sobj, wire>>
    /\ UNCHANGED <<wvars, ivars, pvars, tvars>>

SessionNext ==
    \/ ObservationSessionToDict
    \/ ObservationSessionFromDict

(***************************************************************************)
(* Claims about the inference engine (under SpecInv and SpecRole).         *)
(***************************************************************************)
\* the names bound in some observation, and the marker of the return value
Targets(observations) ==
    UNION {{observations[k].arguments[j][1] : j \in 1..Len(observations[k].arguments)} : k \in 1..Len(observations)}
    \cup {"__return__"}

\* the analyses recorded for a target: of its argument in the calls that
\* bound it, of the return value in the calls that returned
TargetAnalyses(observations, p) ==
    IF p = "__return__" THEN ReturnAnalyses(observations) ELSE ArgAnalyses(observations, p)

NumericValues(analyses) == {k \in 1..Len(analyses) : analyses[k].numeric_value # None}
MinNumeric(analyses) == MinOf({analyses[k].numeric_value[1] : k \in NumericValues(analyses)})

Emitted(list, p, kind) == {k \in 1..Len(list) : list[k].parameter = p /\ list[k].invariant_type = kind}
EmittedRange(list, p, text) == \E k \in Emitted(list, p, "range") : list[k].description[1] = text

\* C5: a parameter (or the return marker) with fewer than 5 observations
\* gets no invariant of any kind; one with at least 5 observations that
\* all satisfy a rule gets the invariant of that rule, with confidence 1.0.
C5_ThresholdGating ==
    invariants # None =>
        \A p \in Targets(iprofile.observations) :
            LET an == TargetAnalyses(iprofile.observations, p)
                list == invariants[1]
                Has(kind) == \E k \in Emitted(list, p, kind) : list[k].confidence = FullConfidence
            IN  /\ Len(an) < MIN_OBSERVATIONS =>
                    \A k \in 1..Len(list) : list[k].parameter # p
                /\ Len(an) >= MIN_OBSERVATIONS =>
                    /\ (\A k \in 1..Len(an) : ~an[k].is_none) => Has("nullability")
                    /\ (\A k \in 1..Len(an) : ~an[k].is_none /\ an[k].type_name = an[1].type_name) => Has("type")
                    /\ (\A k \in 1..Len(an) : an[k].numeric_value # None /\ an[k].numeric_value[1] >= 0) => Has("range")
                    /\ (\A k \in 1..Len(an) : an[k].collection_is_empty = Some(FALSE)) => Has("collection")

NamedFirst(observations, p) ==
    IF p = "__return__" THEN TRUE
    ELSE IF observations = <<>> THEN FALSE
    ELSE \E j \in 1..Len(observations[1].arguments) : observations[1].arguments[j][1] = p

SixRules(profile, validator) ==
    LET ncallers == Cardinality(profile.callers)
        ncallees == Cardinality(profile.callees)
    IN  CASE ncallers = 0 \/ (\E c \in profile.callers : ContainsMain(c)) ->
                 (IF ncallees > 3 THEN "orchestrator" ELSE "entry_point")
          [] OTHER ->
             CASE ncallees = 0 -> (IF validator THEN "validator" ELSE "leaf")
               [] OTHER ->
                  CASE ncallers > 3 /\ ncallees <= 2 -> "utility"
                    [] OTHER ->
                       CASE ncallees > 3 -> "orchestrator"
                         [] OTHER ->
                            CASE ncallers <= 2 /\ ncallees > 1 -> "coordinator"
                              [] OTHER -> "unknown"

AllBoolean(observations) == \A k \in 1..Len(observations) : observations[k].return_value.type_name = "bool"

\* C7, as stated: the role follows the six rules, with VALIDATOR in rule 2
\* when every observed return value is boolean-typed.
C7_RoleRules ==
    role # None => role[1] = SixRules(iprofile, AllBoolean(iprofile.observations))

\* C7, amended: the role follows the six rules, with VALIDATOR in rule 2
\* when there is at least one observation and every observation's return
\* analysis is boolean-typed (the marker of a raised error is not); empty
\* callers with 2 callees is ENTRY_POINT and with 4 callees ORCHESTRATOR.
C7_RoleRulesObserved ==
    role # None =>
        /\ role[1] = SixRules(iprofile, iprofile.observations # <<>> /\ AllBoolean(iprofile.observations))
        /\ (iprofile.callers = {} /\ Cardinality(iprofile.callees) = 2) => role[1] = "entry_point"
        /\ (iprofile.callers = {} /\ Cardinality(iprofile.callees) = 4) => role[1] = "orchestrator"

\* C7 witness: a function without callees, called from the application,
\* whose two recorded calls returned booleans, is classified VALIDATOR.
C7_Witness ==
    /\ role = Some("validator")
    /\ iprofile.callers # {}
    /\ Len(iprofile.observations) = 2

(***************************************************************************)
(* Claims about serialisation (under SpecSerial).                          *)
(***************************************************************************)
\* C8: from_dict(to_dict(x)) equals x field for field, for every
\* ValueAnalysis, CallObservation and FunctionProfile x.
C8_RoundTrip == restored # None => restored[1] = sobj.val

\* C8 witness: a profile with two callers, I/O patterns, moved depth
\* extremes and an observation has been serialised, with its callers
\* listed in one of the two orders, and deserialised.
C8_Witness ==
    /\ restored # None
    /\ sobj.cls = "FunctionProfile"
    /\ Cardinality(sobj.val.callers) = 2
    /\ wire[1].callers.list[1] = MainName
    /\ Cardinality(sobj.val.io_patterns) = 2
    /\ sobj.val.min_call_depth # MinDepthSentinel
    /\ sobj.val.observations # <<>>

\* the analysis a finished call of _analyze_value returned
Analysed == wire # None /\ sobj.cls = "value" /\ wire[1].kind = "return"

\* C26: a numeric value is reported only for an int or float that is not a
\* bool; a bool gets the type tag bool and no numeric, string or collection
\* field; a str gets only its length and its pattern tags; a list, tuple,
\* set or frozenset only its length and emptiness; a dict its length, its
\* emptiness and its first keys, at most 20 of them.
C26_Classification ==
    Analysed =>
        LET v == sobj.val
            a == wire[1].val
            n == Len(v.items)
            noNumeric == a.numeric_value = None
            noString == a.string_length = None /\ a.string_patterns = <<>>
            noColl == a.collection_length = None /\ a.collection_is_empty = None /\ a.dict_keys = <<>>
        IN  /\ a.type_name = v.type
            /\ ~noNumeric => v.type \in {"int", "float"}
            /\ v.type = "bool" => a.type_name = "bool" /\ noNumeric /\ noString /\ noColl
            /\ v.type = "str" => a.string_length = Some(n) /\ noNumeric /\ noColl
            /\ v.type \in {"list", "tuple", "set", "frozenset"} =>
                   /\ a.collection_length = Some(n) /\ a.collection_is_empty = Some(n = 0)
                   /\ a.dict_keys = <<>> /\ noNumeric /\ noString
            /\ v.type = "dict" =>
                   /\ a.collection_length = Some(n) /\ a.collection_is_empty = Some(n = 0)
                   /\ Len(a.dict_keys) = Min2(n, 20)
                   /\ \A k \in 1..Len(a.dict_keys) : a.dict_keys[k] = ToString(v.items[k])
                   /\ noNumeric /\ noString

\* a dict of more than 20 keys has been analysed
C26_Witness ==
    /\ Analysed
    /\ sobj.val.type = "dict"
    /\ Len(sobj.val.items) > 20
    /\ Len(wire[1].val.dict_keys) = 20

\* C27: the rendered lines are, in this order: the purpose line and a
\* blank line if there is a purpose; the Position block, with the
\* placeholder when the role phrase, the call-graph description, the I/O
\* description and the architectural context are all empty; the Invariants
\* block, holding the inferred invariants of confidence >= 0.95 in input
\* order and then the human-added ones, unless there are none; the
\* Parameters block with one entry per observed parameter; the Returns
\* block exactly when there is a return analysis whose type is not NoneType.
C27_SectionOrder ==
    (wire # None /\ sobj.cls = "GeneratedDocstring") =>
        LET d == sobj.val
            h == d.human_input
            pos == d.inferred_position
            role_desc == IF pos.structural_role = "leaf" THEN "Leaf function with no dependencies." ELSE ""
            parts == SelectSeq(<<role_desc, pos.call_graph_description, pos.io_description, h.architectural_context>>,
                               LAMBDA x : x # "")
            purpose == IF h.business_purpose = "" THEN <<>> ELSE <<h.business_purpose, "">>
            position == <<"Position", "--------",
                          IF parts = <<>> THEN "TODO: Add position description" ELSE join(" ", parts), "">>
            confident == SelectSeq(d.inferred_invariants, LAMBDA inv : inv.confidence >= 95)
            bullets == [k \in 1..Len(confident) |-> "- " \o confident[k].description]
                       \o [k \in 1..Len(h.additional_invariants) |-> "- " \o h.additional_invariants[k]]
            invblock == IF bullets = <<>> THEN <<>> ELSE <<"Invariants", "----------">> \o bullets \o <<"">>
            rest == SubSeq(wire[1], Len(purpose \o position \o invblock) + 1, Len(wire[1]))
            n == Len(d.inferred_params)
            hasReturns == d.inferred_return # None /\ d.inferred_return # Some(_analyze_value(PyNone))
            returns == SubSeq(rest, IF n = 0 THEN 1 ELSE 2 * n + 4, Len(rest))
        IN  /\ Len(wire[1]) >= Len(purpose \o position \o invblock)
            /\ SubSeq(wire[1], 1, Len(purpose \o position \o invblock)) = purpose \o position \o invblock
            /\ Len(rest) >= (IF n = 0 THEN 0 ELSE 2 * n + 3)
            /\ n > 0 =>
                   /\ rest[1] = "Parameters" /\ rest[2] = "----------" /\ rest[2 * n + 3] = ""
                   /\ \A k \in 1..n : rest[2 * k + 1] = d.inferred_params[k][1] \o " : " \o d.inferred_params[k][2].type_name
            /\ IF hasReturns
               THEN Len(returns) = 4 /\ returns[1] = "Returns" /\ returns[2] = "-------"
                    /\ returns[3] = d.inferred_return[1].type_name
               ELSE returns = <<>>

\* a docstring with every block has been rendered, one of its inferred
\* invariants being left out for its confidence
C27_Witness ==
    /\ wire # None
    /\ sobj.cls = "GeneratedDocstring"
    /\ sobj.val.human_input.business_purpose # ""
    /\ \E k \in 1..Len(sobj.val.inferred_invariants) : sobj.val.inferred_invariants[k].confidence < 95
    /\ \E k \in 1..Len(sobj.val.inferred_invariants) : sobj.val.inferred_invariants[k].confidence = 95
    /\ sobj.val.inferred_params # <<>>
    /\ \E k \in 1..Len(wire[1]) : wire[1][k] = "Returns"

\* C18 (under SpecSession): from_dict(to_dict(s)) has the profiles of s,
\* every field of each, and the completed-function set of s.
C18_SessionRoundTrip ==
    (sobj # None /\ restored # None) =>
        /\ restored[1].functions = sobj.val.functions
        /\ restored[1].completed_functions = sobj.val.completed_functions

(***************************************************************************)
(* Claims about the patcher (under SpecPatch).                             *)
(***************************************************************************)
\* the target line of doc holds, in text, a def or async def of the
\* function doc's qualified name ends in
Verifies(text, doc) ==
    IF doc.line_number > Len(text) THEN FALSE
    ELSE /\ text[doc.line_number].kind \in DefKinds
         /\ text[doc.line_number].name = doc.qualname.name

\* the calls of _apply_to_file in the current run that wrote their file,
\* and the entries such a call was given
Updated == {log[i].path : i \in {k \in 1..Len(log) : log[k].result = "updated"}}
DocsOf(path) == by_file[MinOf({k \in 1..Len(by_file) : by_file[k].file_path = path})].docs

\* C9: an entry is applied only if its target line holds a definition
\* (plain or async) of the function its qualified name ends in; any other
\* entry is skipped, and the entries that do verify are still applied.
C9_StalenessVerified ==
    \A p \in Updated :
        /\ \A k \in 1..Len(applied[p]) : Verifies(original[p][1], applied[p][k])
        /\ \A k \in 1..Len(DocsOf(p)) : Verifies(original[p][1], DocsOf(p)[k]) => DocsOf(p)[k] \in Range(applied[p])

\* C10: the file written is the original with only the edits of the
\* entries that passed verification; when every entry is skipped, it is
\* the original text, with or without a final newline.
C10_FrameCondition ==
    \A p \in Updated :
        LET verified == Filter(DocsOf(p), {d \in Range(DocsOf(p)) : Verifies(original[p][1], d)})
            edited == ApplyAll([lines |-> original[p][1], applied |-> <<>>], ast_parse(original[p][1]), verified)
        IN  /\ source[p] = Some(edited.lines)
            /\ verified = <<>> => source[p] = original[p]

\* the calls of _apply_to_file in the current run with the given outcome
Outcome(path, result) == \E i \in 1..Len(log) : log[i] = [path |-> path, result |-> result]

\* C11: a file is written only when a backup copy of it holding the
\* contents it had before the write exists, and a file whose backup
\* could not be made still has the contents it had when the call began.
C11_BackupBeforeWrite ==
    /\ [][\A p \in Paths : source'[p] # source[p] =>
              \E b \in backups : b.path.stem = BackupPath(p, clock).stem /\ b.text = source[p][1]]_vars
    /\ [](\A p \in Paths : Outcome(p, "backup failed") => source[p] = original[p])

\* app.py was written after its backup, and the backup of lib.py failed
C11_Witness ==
    /\ Outcome("app.py", "updated")
    /\ source["app.py"] # original["app.py"]
    /\ Outcome("lib.py", "backup failed")

\* C12: a backup copy, once made, keeps its name and its contents: a
\* later run never replaces it.
C12_BackupKept == [][\A b \in backups : b \in backups']_vars

\* C19: a file that does not parse keeps the contents it had, whatever
\* entries were given for it, and the run goes on to the files after it.
C19_ParseFailureSkipsWrite ==
    \A i \in 1..Len(log) :
        log[i].result = "syntax error" =>
            /\ source[log[i].path] = original[log[i].path]
            /\ (stage = "done" /\ i < Len(by_file)) => Len(log) > i

\* app.py did not parse and lib.py, after it in the batch, was patched
C19_Witness ==
    /\ log = <<[path |-> "app.py", result |-> "syntax error"], [path |-> "lib.py", result |-> "updated"]>>
    /\ source["lib.py"] # original["lib.py"]
    /\ stage = "done"

\* the lines of a text that are code: statements, headers and bodies
Code(text) ==
    LET code == {i \in 1..Len(text) : text[i].kind \in {"stmt", "def", "async def", "pass"}}
    IN  [k \in 1..Cardinality(code) |->
           LET i == CHOOSE i \in code : Cardinality({j \in code : j <= i}) = k
           IN  <<text[i].kind, text[i].name, text[i].indent>>]

\* the number of lines of the given kind in the body of the k-th function
InBody(text, k, kind) ==
    LET first == ast_parse(text)[k].lineno + 1
        ends == {i \in first..Len(text) : text[i].kind \in {"stmt", "def", "async def"}}
        last_line == IF ends = {} THEN Len(text) ELSE MinOf(ends) - 1
    IN  Cardinality({i \in first..last_line : text[i].kind = kind})

\* C20: after a run every function an entry pointed at has exactly one
\* docstring block (a one-line docstring, or an opening and a closing line
\* of quotes), and the code lines of the file are those of the original.
C20_OneDocstring ==
    \A p \in Updated :
        LET tree == ast_parse(original[p][1])
            targeted == {k \in 1..Len(tree) : \E d \in Range(DocsOf(p)) : d.line_number = tree[k].lineno}
        IN  /\ Code(source[p][1]) = Code(original[p][1])
            /\ \A k \in targeted :
                  /\ InBody(source[p][1], k, "quotes") \in {0, 2}
                  /\ 2 * InBody(source[p][1], k, "doc") + InBody(source[p][1], k, "quotes") = 2

\* C25 (under SpecPlace): when every entry of a file passes verification
\* and no two point at one line, the file written holds, for each entry,
\* the target's header lines unchanged, then the rendered block, then the
\* line that followed the header (or, if that was the old docstring, the
\* line after it); the lines above are shifted only by the blocks of the
\* entries above.
C25_Placement ==
    \A p \in Updated :
        LET text == original[p][1]
            new == source[p][1]
            docs == DocsOf(p)
            tree == ast_parse(text)
            hend(d) == IF text[d.line_number].kind \in {"def", "async def"}
                       THEN _find_function_node(tree, d.line_number)[1].body_lineno - 1
                       ELSE d.line_number
            olddoc(d) == IF hend(d) < Len(text) THEN (IF text[hend(d) + 1].kind = "doc" THEN 1 ELSE 0) ELSE 0
            block(d) == FormattedLines(d, text[d.line_number].indent + 4)
            shift(d) == Cardinality({<<k, j>> \in (1..Len(docs)) \X (1..Len(new)) :
                                        /\ docs[k].line_number < d.line_number
                                        /\ j <= Len(block(docs[k])) - olddoc(docs[k])})
            same(a, b) == a.kind = b.kind /\ a.name = b.name /\ a.indent = b.indent
        IN  (/\ \A k \in 1..Len(docs) : Verifies(text, docs[k])
             /\ \A k \in 1..Len(docs), j \in 1..Len(docs) : docs[k].line_number = docs[j].line_number => k = j) =>
                \A k \in 1..Len(docs) :
                    LET d == docs[k]
                        at == hend(d) + shift(d)
                    IN  /\ Len(new) >= at + Len(block(d))
                        /\ \A j \in d.line_number..hend(d) : same(new[j + shift(d)], text[j])
                        /\ \A j \in 1..Len(block(d)) : new[at + j] = block(d)[j]
                        /\ hend(d) + olddoc(d) < Len(text) =>
                               /\ Len(new) > at + Len(block(d))
                               /\ same(new[at + Len(block(d)) + 1], text[hend(d) + olddoc(d) + 1])

(***************************************************************************)
(* The specifications.                                                     *)
(***************************************************************************)
\* the file system without source files
NoFiles == {[p \in Paths |-> None]}

SerialObjects ==
    {[cls |-> "ValueAnalysis", val |-> x] : x \in SampleAnalyses}
    \cup {[cls |-> "CallObservation", val |-> x] : x \in SampleObservations}
    \cup {[cls |-> "FunctionProfile", val |-> x] : x \in SampleProfiles}

\* The state after the modules are imported and f is decorated
\* (decorator.py:31-32, 79-89; call_graph.py:42-54), with the object to
\* serialise drawn from objects, the source files from texts, and
\* controls calls of the control functions to come.
Init(objects, texts, controls) ==
    /\ heap = <<FunctionProfile("f")>>
    /\ _profiles = [fn \in Funcs |-> 1]
    /\ actual = <<<<>>>>
    /\ frames = [t \in Threads |-> <<>>]
    /\ last = None
    /\ stack = [t \in Threads |-> <<>>]
    /\ hook = [t \in Threads |-> FALSE]
    /\ tracked_modules = {}
    /\ callers = [n \in Names |-> {}]
    /\ callees = [n \in Names |-> {}]
    /\ now = 0
    /\ snapshot = None
    /\ entered = [t \in Threads |-> <<>>]
    /\ completed = <<>>
    /\ running = [t \in Threads |-> <<>>]
    /\ started_with = None
    /\ ncalls = 0
    /\ ncontrol = controls
    /\ tracker_lock = None
    /\ pending = [t \in Threads |-> None]
    /\ _global_tracker = 0
    /\ created = 0
    /\ getting = [t \in Threads |-> "idle"]
    /\ got = [t \in Threads |-> 0]
    /\ iprofile = FunctionProfile("f")
    /\ invariants = None
    /\ role = None
    /\ sobj \in objects
    /\ wire = None
    /\ restored = None
    /\ source \in texts
    /\ backups = {}
    /\ clock = 0
    /\ by_file = <<>>
    /\ stage = "done"
    /\ next_file = 1
    /\ original = [p \in Paths |-> None]
    /\ applied = [p \in Paths |-> <<>>]
    /\ log = <<>>
    /\ ndocs = 0

Spec == Init({None}, NoFiles, MaxControl) /\ [][WNext]_vars
SpecTrack == Init({None}, NoFiles, MaxTrackOps) /\ [][TrackNext]_vars
SpecThreads == Init({None}, NoFiles, MaxControl) /\ [][ThreadNext]_vars
SpecInv == Init({None}, NoFiles, 0) /\ [][InvNext]_vars
SpecRole == Init({None}, NoFiles, 0) /\ [][RoleNext]_vars
SpecSerial == Init(SerialObjects, NoFiles, 0) /\ [][SerialNext]_vars
SpecAnalyze == Init({[cls |-> "value", val |-> x] : x \in SampleValues}, NoFiles, 0) /\ [][AnalyzeNext]_vars
SpecRender == Init({[cls |-> "GeneratedDocstring", val |-> x] : x \in SampleDocstrings}, NoFiles, 0) /\ [][RenderNext]_vars
SpecSession == Init({[cls |-> "ObservationSession", val |-> x] : x \in SampleSessions}, NoFiles, 0) /\ [][SessionNext]_vars
\* app.py alone, holding any of Sources
SpecPatch == Init({None}, {[p \in Paths |-> IF p = "app.py" THEN Some(t) ELSE None] : t \in Sources}, 0) /\ [][PatchNext]_vars
\* app.py, which may not compile, and lib.py
SpecPlace == Init({None}, {[p \in Paths |-> IF p = "app.py" THEN Some(t) ELSE None] : t \in PlaceSources}, 0) /\ [][PatchNext]_vars
SpecBackup == Init({None}, {[p \in Paths |-> Some(IF p = "app.py" THEN t ELSE FuncLines("async def", "g", FALSE))] : t \in {FuncLines("def", "f", FALSE), BrokenLines, Chomp(BrokenLines)}}, 0) /\ [][PatchNext]_vars
====
